---- MODULE Spec2Model ----
(***************************************************************************)
(* Verification development of the polymarket monitoring agent.            *)
(*                                                                         *)
(* Part 1: the spot-book maintainer (src/src/services/binance.rs),         *)
(* Part 2: the trade gate (trade.rs, clob.rs, main.rs),                    *)
(* Part 3: the signal evaluator (signal.rs),                               *)
(* Part 4: the active market, its discovery in the catalog, its target    *)
(* price and the quotes of its stream (polymarket.rs, gamma.rs, main.rs).  *)
(* Part 5: the page scraper of the price to beat (price_scraper.rs),       *)
(* Part 6: the locks the tasks take (LockSpec),                            *)
(* Part 7: a place_order call followed statement by statement beside the   *)
(* other tasks (CallerSpec),                                               *)
(* Part 8: the spawned fetches of the price to beat, one by one            *)
(* (TargetSpec).                                                           *)
(* The parts have their own specifications; the variables of the parts a   *)
(* specification leaves out rest.  MarketFairSpec is MarketSpec under fair *)
(* scheduling; DiscoverySpec, QuoteSpec and HistorySpec run the discovery, *)
(* the stream's messages and the mid history on richer inputs;             *)
(* OperatorSpec gives the operator's keys wider steps, and StopSpec is the *)
(* book maintainer under fair scheduling with stop() at any moment.        *)
(*                                                                         *)
(* Part 1, the spot-book maintainer:                                       *)
(* OrderBook (apply_snapshot, apply_diff, best_bid, best_ask, mid,         *)
(* imbalance_top_n) and BinanceBookService (start, run_connection,         *)
(* record_mid, emit_update, stop).                                         *)
(*                                                                         *)
(* Decimal prices are integers on an even grid, so that the mid            *)
(* (bid + ask) / 2 is exact, as it is for rust_decimal.  A price or        *)
(* quantity string that does not parse is the entry BAD.  Timestamps of    *)
(* the mid history are kept as ages (now_ms - ts): the clock that          *)
(* record_mid and get_returns read does not go back.                       *)
(***************************************************************************)
EXTENDS Integers, Sequences, FiniteSets, TLC

VARIABLES
    book,            \* OrderBook behind BinanceBookService.book
    mid_history,     \* BinanceBookService.mid_history, entries [age, mid]
    update_tx,       \* the BinanceBookUpdate the last step sent on the broadcast channel
    running,         \* BinanceBookService.running
    pc,              \* position of the start()/run_connection() task
    snapshot,        \* run_connection's local snapshot
    diff,            \* run_connection's local diff (last DepthDiff deserialized)
    result,          \* what the loop did with the last diff (the branch taken)
    stop_seen,       \* whether stop() was called, and when: before start() or after
    exchange,        \* the exchange: its book and the id of its last update
    pending,         \* the exchange: the updates not yet published as a diff
    ws_queue,        \* the diffs published on the service's websocket, not yet read
    ref_book,        \* the book of a maintainer that never disconnects
    loads,           \* the snapshots loaded so far: how many by the service, and
                     \* whether each of them held the exchange's whole book
    state,           \* TradeService.state (TradingState)
    quote_state,     \* PolymarketService.quote_state, last_update_ms kept as an age
    active_market,   \* PolymarketService.active_market
    order,           \* the place_order call: its locals, what it logged, sent, returned
    session,         \* main: the mode, the credentials, the auth check's outcome
    signal_config,   \* SignalService.config
    signal_state,    \* SignalService.signal_state
    signal_tx,       \* the SignalEvent the last compute_signal sent on the broadcast channel
    poly_pc,         \* position of the PolymarketService::start task
    tick,            \* the snapshot task of main: its position and its locals
    scrapers,        \* the price-to-beat fetches spawned by the snapshot task, still running
    market_op,       \* the last operation done or tried on the active market descriptor
    catalog,         \* the market catalog: its answer for each window's slug
    assets_ids,      \* the token ids of the open websocket session's subscription
    check_due,       \* last_market_check.elapsed() > market_check_interval
    html,            \* the event page handed to extract_open_price_from_embedded_json
    open_price,      \* what extract_open_price_from_embedded_json returned for it
    task_pc,         \* of each task: the routine it runs and its place in it
    held,            \* of each task: the locks it holds, with the mode of each
    call,            \* a place_order call followed statement by statement: its locals
    quoted_for,      \* of each quote of quote_state: the market whose token it was received for
    fetches          \* the spawned fetches of the price to beat, one by one: the slug each read

svc_vars == <<book, mid_history, update_tx, running, pc, snapshot, diff, result, stop_seen>>

ex_vars == <<exchange, pending, ws_queue, ref_book, loads>>

trade_vars == <<state, quote_state, active_market, order, session>>

signal_vars == <<signal_config, signal_state, signal_tx>>

market_vars == <<poly_pc, tick, scrapers, market_op, catalog, assets_ids, check_due>>

scraper_vars == <<html, open_price>>

lock_vars == <<task_pc, held>>

caller_vars == <<call, quoted_for>>

fetch_vars == <<fetches>>

app_vars == <<trade_vars, signal_vars, market_vars, scraper_vars, lock_vars, caller_vars, fetch_vars>>

vars == <<svc_vars, ex_vars, app_vars>>

----------------------------------------------------------------------------
(* Bounds and values *)

MaxUpdateId == 3

UpdateIds == 0..MaxUpdateId

RetentionMs == 60000

\* a (price, qty) pair of strings: parses says whether both parse as Decimal
Level(p, q) == [price |-> p, qty |-> q, parses |-> TRUE]

BAD == [price |-> 0, qty |-> 0, parses |-> FALSE]

\* prev_final_update_id = None
NoPu == -1

\* the value of diff before the first message of a connection
NoDiff ==
    [first_update_id |-> 0, final_update_id |-> 0, prev_final_update_id |-> NoPu,
     bids |-> <<>>, asks |-> <<>>]

\* the value of snapshot before fetch_snapshot returns
NoSnapshot == [last_update_id |-> 0, bids |-> <<>>, asks |-> <<>>]

\* Option<BinanceBookUpdate>: the empty set is None
NoUpdate == {}

----------------------------------------------------------------------------
(* BTreeMap<Decimal, Decimal> *)

EmptyMap == [p \in {} |-> 0]

Insert(m, p, q) == [x \in (DOMAIN m) \cup {p} |-> IF x = p THEN q ELSE m[x]]

Remove(m, p) == [x \in (DOMAIN m) \ {p} |-> m[x]]

SetMax(S) == CHOOSE x \in S : \A y \in S : y <= x

SetMin(S) == CHOOSE x \in S : \A y \in S : x <= y

----------------------------------------------------------------------------
(* OrderBook *)

NewBook == [bids |-> EmptyMap, asks |-> EmptyMap, last_update_id |-> 0, initialized |-> FALSE]

\* one iteration of a loop of apply_snapshot
SnapshotLevel(m, e) == IF e.qty > 0 THEN Insert(m, e.price, e.qty) ELSE m

\* a loop of apply_diff that stores zero quantities instead of removing the level
DiffLevelInsert(m, e) == Insert(m, e.price, e.qty)

\* one iteration of a loop of apply_diff
DiffLevel(m, e) == IF e.qty = 0 THEN Remove(m, e.price) ELSE Insert(m, e.price, e.qty)

\* a loop of apply_snapshot; `?` leaves the loop at the first entry that does not parse
RECURSIVE SnapshotSide(_, _)
SnapshotSide(m, es) ==
    IF es = <<>> THEN [ok |-> TRUE, map |-> m]
    ELSE IF ~Head(es).parses THEN [ok |-> FALSE, map |-> m]
    ELSE SnapshotSide(SnapshotLevel(m, Head(es)), Tail(es))

\* a loop of apply_diff
RECURSIVE DiffSide(_, _)
DiffSide(m, es) ==
    IF es = <<>> THEN [ok |-> TRUE, map |-> m]
    ELSE IF ~Head(es).parses THEN [ok |-> FALSE, map |-> m]
    ELSE DiffSide(DiffLevel(m, Head(es)), Tail(es))

\* an apply_snapshot without the two clear() calls
ApplySnapshotOver(b, s) ==
    LET bs == SnapshotSide(b.bids, s.bids)
        as == SnapshotSide(b.asks, s.asks)
    IN  IF ~bs.ok THEN [ok |-> FALSE, book |-> [b EXCEPT !.bids = bs.map]]
        ELSE IF ~as.ok THEN [ok |-> FALSE, book |-> [b EXCEPT !.bids = bs.map, !.asks = as.map]]
        ELSE [ok |-> TRUE,
              book |-> [bids |-> bs.map, asks |-> as.map,
                        last_update_id |-> s.last_update_id, initialized |-> TRUE]]

ApplySnapshot(b, s) ==
    LET bs == SnapshotSide(EmptyMap, s.bids)
        as == SnapshotSide(EmptyMap, s.asks)
    IN  IF ~bs.ok THEN [ok |-> FALSE, book |-> [b EXCEPT !.bids = bs.map, !.asks = EmptyMap]]
        ELSE IF ~as.ok THEN [ok |-> FALSE, book |-> [b EXCEPT !.bids = bs.map, !.asks = as.map]]
        ELSE [ok |-> TRUE,
              book |-> [bids |-> bs.map, asks |-> as.map,
                        last_update_id |-> s.last_update_id, initialized |-> TRUE]]

\* a sequence check that does not look at prev_final_update_id
SequenceCheckRangeOnly(last, d) ==
    IF d.first_update_id > last + 1 THEN "gap"
    ELSE IF d.final_update_id < last + 1 THEN "processed"
    ELSE "apply"

\* the sequence check of apply_diff: "gap", "processed" or "apply"
SequenceCheck(last, d) ==
    IF d.prev_final_update_id # NoPu
    THEN IF d.prev_final_update_id # last THEN "gap" ELSE "apply"
    ELSE IF d.first_update_id > last + 1 THEN "gap"
         ELSE IF d.final_update_id < last + 1 THEN "processed"
         ELSE "apply"

\* the first update id of the diff in place of the final one
AppliedFirstId(d) == d.first_update_id

\* the counter apply_diff stores after its loops
AppliedId(d) == d.final_update_id

\* apply_diff: res names the return taken.  "uninit" and "gap" are Ok(false),
\* "processed" and "applied" are Ok(true), "err" is a parse error: the levels
\* before it stay applied and last_update_id is not stored
ApplyDiff(b, d) ==
    IF ~b.initialized THEN [res |-> "uninit", book |-> b]
    ELSE LET chk == SequenceCheck(b.last_update_id, d) IN
         IF chk = "gap" THEN [res |-> "gap", book |-> b]
         ELSE IF chk = "processed" THEN [res |-> "processed", book |-> b]
         ELSE LET bs == DiffSide(b.bids, d.bids)
                  as == DiffSide(b.asks, d.asks)
              IN  IF ~bs.ok THEN [res |-> "err", book |-> [b EXCEPT !.bids = bs.map]]
                  ELSE IF ~as.ok
                       THEN [res |-> "err", book |-> [b EXCEPT !.bids = bs.map, !.asks = as.map]]
                  ELSE [res |-> "applied",
                        book |-> [b EXCEPT !.bids = bs.map, !.asks = as.map,
                                           !.last_update_id = AppliedId(d)]]

OkTrue(res) == res \in {"processed", "applied"}

OkFalse(res) == res \in {"uninit", "gap"}

HasBid(b) == DOMAIN b.bids # {}

HasAsk(b) == DOMAIN b.asks # {}

\* best_bid and best_ask, defined when the side is not empty
BestBid(b) == SetMax(DOMAIN b.bids)

BestAsk(b) == SetMin(DOMAIN b.asks)

HasMid(b) == HasBid(b) /\ HasAsk(b)

Mid(b) == (BestBid(b) + BestAsk(b)) \div 2

RECURSIVE SumQty(_, _)
SumQty(m, S) == IF S = {} THEN 0 ELSE LET p == CHOOSE x \in S : TRUE IN m[p] + SumQty(m, S \ {p})

\* the n highest (hi) or lowest elements of S
RECURSIVE TopN(_, _, _)
TopN(S, n, hi) ==
    IF n = 0 \/ S = {} THEN {}
    ELSE LET x == IF hi THEN SetMax(S) ELSE SetMin(S) IN {x} \cup TopN(S \ {x}, n - 1, hi)

\* imbalance_top_n as the fraction num / den; 0 when the total is 0
ImbalanceTopN(b, n) ==
    LET bid_sum == SumQty(b.bids, TopN(DOMAIN b.bids, n, TRUE))
        ask_sum == SumQty(b.asks, TopN(DOMAIN b.asks, n, FALSE))
        total == bid_sum + ask_sum
    IN  IF total = 0 THEN [num |-> 0, den |-> 1] ELSE [num |-> bid_sum - ask_sum, den |-> total]

----------------------------------------------------------------------------
(* BinanceBookService *)

ImbalanceDepth == 5

GetCurrentUpdate(b) ==
    IF ~b.initialized \/ ~HasBid(b) \/ ~HasAsk(b) THEN NoUpdate
    ELSE {[best_bid |-> BestBid(b), best_bid_qty |-> b.bids[BestBid(b)],
          best_ask |-> BestAsk(b), best_ask_qty |-> b.asks[BestAsk(b)],
          mid |-> Mid(b), imbalance_top5 |-> ImbalanceTopN(b, ImbalanceDepth),
          update_id |-> b.last_update_id]}

\* a history from which nothing is ever evicted
EvictNothing(h) == h

RECURSIVE Evict(_)
Evict(h) == IF h # <<>> /\ Head(h).age > RetentionMs THEN Evict(Tail(h)) ELSE h

RecordMid(h, b) == IF HasMid(b) THEN Evict(Append(h, [age |-> 0, mid |-> Mid(b)])) ELSE h

\* what emit_update sends: nothing when get_current_update returns None
EmitUpdate(b) == GetCurrentUpdate(b)

\* the clock moves on by dt; ages past the retention window are all alike
Elapse(h, dt) ==
    [i \in 1..Len(h) |->
        [h[i] EXCEPT !.age = IF h[i].age + dt > RetentionMs THEN RetentionMs + 1 ELSE h[i].age + dt]]

\* the filter of run_connection before apply_diff
BeforeSnapshot(d, snap) == d.final_update_id <= snap.last_update_id

\* a reset that only clears the initialized flag
ClearInitialized(b) == [b EXCEPT !.initialized = FALSE]

\* the book after the loop of run_connection, when needs_resync is set
ResyncBook(b) == NewBook

Init ==
    /\ book = NewBook
    /\ mid_history = <<>>
    /\ update_tx = NoUpdate
    /\ running = FALSE
    /\ pc = "idle"
    /\ snapshot = NoSnapshot
    /\ diff = NoDiff
    /\ result = "none"
    /\ stop_seen = "never"

\* start(): set the flag and enter the loop
Start ==
    /\ pc = "idle"
    /\ running' = TRUE
    /\ pc' = "loop"
    /\ update_tx' = NoUpdate
    /\ UNCHANGED <<book, mid_history, snapshot, diff, result>>

\* stop(), whenever it is called
Stop ==
    /\ running' = FALSE
    /\ update_tx' = NoUpdate
    /\ UNCHANGED <<book, mid_history, pc, snapshot, diff, result>>

LoopTopIgnoringFlag ==
    /\ pc = "loop"
    /\ pc' = "connect"
    /\ snapshot' = NoSnapshot
    /\ diff' = NoDiff
    /\ update_tx' = NoUpdate
    /\ UNCHANGED <<book, mid_history, running, result>>

\* top of the loop of start(); the locals of the run_connection that returned
\* are gone
LoopTop ==
    /\ pc = "loop"
    /\ pc' = IF running THEN "connect" ELSE "done"
    /\ snapshot' = NoSnapshot
    /\ diff' = NoDiff
    /\ update_tx' = NoUpdate
    /\ UNCHANGED <<book, mid_history, running, result>>

\* connect_async: on success the snapshot is fetched next, on failure
\* run_connection returns the error and start() sleeps
Connect ==
    /\ pc = "connect"
    /\ \E ok \in BOOLEAN : pc' = IF ok THEN "fetch" ELSE "sleep"
    /\ update_tx' = NoUpdate
    /\ UNCHANGED <<book, mid_history, running, snapshot, diff, result>>

\* fetch_snapshot fails (the request or the JSON)
FetchFail ==
    /\ pc = "fetch"
    /\ pc' = "sleep"
    /\ update_tx' = NoUpdate
    /\ UNCHANGED <<book, mid_history, running, snapshot, diff, result>>

\* fetch_snapshot returns s and apply_snapshot runs
FetchSnapshot(s) ==
    /\ pc = "fetch"
    /\ snapshot' = s
    /\ LET r == ApplySnapshot(book, s) IN
        /\ book' = r.book
        /\ pc' = IF r.ok THEN "stream" ELSE "sleep"
    /\ update_tx' = NoUpdate
    /\ UNCHANGED <<mid_history, running, diff, result>>

\* the 5 s sleep of start() ends
Wake ==
    /\ pc = "sleep"
    /\ pc' = "loop"
    /\ update_tx' = NoUpdate
    /\ UNCHANGED <<book, mid_history, running, snapshot, diff, result>>

\* a text message that deserializes to the DepthDiff d arrives, dt after the
\* previous one: the running check, the filter, apply_diff and what follows it
\* (record_mid and emit_update, or the reset of the book and the return)
RecvDiff(d, dt) ==
    /\ pc = "stream"
    /\ IF ~running
       THEN /\ pc' = "loop"
            /\ update_tx' = NoUpdate
            /\ UNCHANGED <<book, mid_history, diff, result>>
       ELSE /\ diff' = d
            /\ IF BeforeSnapshot(d, snapshot)
               THEN /\ result' = "skip"
                    /\ update_tx' = NoUpdate
                    /\ UNCHANGED <<book, mid_history, pc>>
               ELSE LET r == ApplyDiff(book, d) IN
                    /\ result' = r.res
                    /\ IF OkTrue(r.res)
                       THEN /\ book' = r.book
                            /\ mid_history' = RecordMid(Elapse(mid_history, dt), r.book)
                            /\ update_tx' = EmitUpdate(r.book)
                            /\ pc' = pc
                       ELSE IF OkFalse(r.res)
                       THEN /\ book' = ResyncBook(r.book)
                            /\ pc' = "loop"
                            /\ update_tx' = NoUpdate
                            /\ UNCHANGED mid_history
                       ELSE /\ book' = r.book
                            /\ update_tx' = NoUpdate
                            /\ UNCHANGED <<mid_history, pc>>
    /\ UNCHANGED <<running, snapshot>>

\* any other message: text that is no DepthDiff, a ping, a pong or a binary
\* frame ("other"), a close frame, a websocket error, or the end of the stream
RecvOther(kind) ==
    /\ pc = "stream"
    /\ pc' = IF running /\ kind = "other" THEN "stream" ELSE "loop"
    /\ update_tx' = NoUpdate
    /\ UNCHANGED <<book, mid_history, running, snapshot, diff, result>>

----------------------------------------------------------------------------
(* Inputs.  Two specifications run the same actions on two sets of inputs:    *)
(* Spec draws the update ids of a diff freely and keeps its levels fixed,     *)
(* LevelSpec draws the levels freely and gives every diff one update id.      *)

\* Spec: the levels of a snapshot: one level a side, a zero quantity among the
\* bids, or a bid that does not parse
SeqSnapshotLevels ==
    {<< <<Level(2, 1)>>, <<Level(6, 1)>> >>,
     << <<Level(4, 1), Level(2, 0)>>, <<Level(6, 2)>> >>,
     << <<Level(4, 1), BAD>>, <<Level(6, 1)>> >>}

SeqSnapshots ==
    {[last_update_id |-> i, bids |-> ls[1], asks |-> ls[2]] :
        i \in UpdateIds, ls \in SeqSnapshotLevels}

\* Spec: diffs of every sequence shape
SeqDiffs ==
    [first_update_id : UpdateIds \ {0}, final_update_id : UpdateIds \ {0},
     prev_final_update_id : UpdateIds \cup {NoPu},
     bids : {<<>>, <<Level(2, 2)>>}, asks : {<<>>}]

\* LevelSpec: bids at the prices 2 and 4 (a negative, a zero and two positive
\* quantities), asks at the prices 4 and 6
BidLevels == {Level(2, -1), Level(2, 0), Level(2, 1), Level(2, 2), Level(4, 0), Level(4, 1)}

AskLevels == {Level(4, 0), Level(4, 1), Level(6, 0), Level(6, 1)}

Prices == {e.price : e \in BidLevels \cup AskLevels}

\* LevelSpec: the levels of a snapshot, the book of the exchange at one instant:
\* two bids, two asks, an empty book, non-positive quantities, and asks that do
\* not parse
LevelSnapshotLevels ==
    {<< <<Level(2, 1), Level(4, 1)>>, <<Level(6, 1)>> >>,
     << <<Level(2, 2)>>, <<Level(4, 1), Level(6, 1)>> >>,
     << <<>>, <<>> >>,
     << <<Level(2, -1), Level(4, 0)>>, <<Level(6, 0)>> >>,
     << <<Level(2, 1)>>, <<Level(6, 1), BAD>> >>}

LevelSnapshots ==
    {[last_update_id |-> 0, bids |-> ls[1], asks |-> ls[2]] : ls \in LevelSnapshotLevels}

\* LevelSpec: the update ids of the diffs
LevelIds == {1, 2}

\* LevelSpec: the sides of a diff: one entry of any kind, a level followed by an
\* entry that does not parse, one price listed twice
DiffBids ==
    {<<e>> : e \in BidLevels \cup {BAD}}
        \cup {<<Level(4, 1), BAD>>, <<Level(2, 1), Level(2, 0)>>}

DiffAsks == {<<e>> : e \in AskLevels \cup {BAD}}

\* LevelSpec: the two sides of a diff; one of them is empty, or the asks do not parse
DiffLevels ==
    {<<bs, <<>> >> : bs \in DiffBids} \cup {<< <<>>, as>> : as \in DiffAsks}
        \cup {<<bs, <<BAD>> >> : bs \in {<<Level(2, 2)>>, <<Level(4, 1)>>}}

LevelDiffs ==
    {[first_update_id |-> i, final_update_id |-> i, prev_final_update_id |-> NoPu,
      bids |-> ls[1], asks |-> ls[2]] : i \in LevelIds, ls \in DiffLevels}

\* the time between two messages: the history holds one entry at most
Elapsed == {RetentionMs + 1}

\* the messages that are no diff
MessageKinds == {"other", "close", "error", "end"}

\* the value of a variable of a component that plays no part in a specification
Unused == "unused"

\* the trade gate, the signal engine and the quote feed are no part of the
\* specifications of the spot book: their variables rest
TradeIdle ==
    /\ state = Unused
    /\ order = Unused
    /\ session = Unused

SignalIdle ==
    /\ signal_config = Unused
    /\ signal_state = Unused
    /\ signal_tx = Unused

MarketIdle ==
    /\ poly_pc = Unused
    /\ tick = Unused
    /\ scrapers = Unused
    /\ market_op = Unused
    /\ catalog = Unused
    /\ assets_ids = Unused
    /\ check_due = Unused

ScraperIdle ==
    /\ html = Unused
    /\ open_price = Unused

LockIdle ==
    /\ task_pc = Unused
    /\ held = Unused

CallerIdle ==
    /\ call = Unused
    /\ quoted_for = Unused

FetchIdle == fetches = Unused

AppIdle ==
    /\ TradeIdle
    /\ quote_state = Unused
    /\ active_market = Unused
    /\ SignalIdle
    /\ MarketIdle
    /\ ScraperIdle
    /\ CallerIdle
    /\ FetchIdle
    /\ LockIdle

\* the values of the exchange's variables where the exchange plays no part
ExchangeIdle ==
    /\ exchange = [bids |-> EmptyMap, asks |-> EmptyMap, id |-> 0]
    /\ pending = NoDiff
    /\ ws_queue = <<>>
    /\ ref_book = NewBook
    /\ loads = [count |-> 0, whole |-> TRUE]

\* Spec and LevelSpec draw the messages freely: the exchange is not part of them
NoExchange == UNCHANGED <<ex_vars, app_vars, stop_seen>>

FreeInit ==
    /\ Init
    /\ ExchangeIdle
    /\ AppIdle

Next ==
    \/ Start /\ NoExchange
    \/ Stop /\ NoExchange
    \/ LoopTop /\ NoExchange
    \/ Connect /\ NoExchange
    \/ FetchFail /\ NoExchange
    \/ \E s \in SeqSnapshots : FetchSnapshot(s) /\ NoExchange
    \/ Wake /\ NoExchange
    \/ \E d \in SeqDiffs, dt \in Elapsed : RecvDiff(d, dt) /\ NoExchange
    \/ \E kind \in MessageKinds : RecvOther(kind) /\ NoExchange

Spec == FreeInit /\ [][Next]_vars

LevelNext ==
    \/ Start /\ NoExchange
    \/ Stop /\ NoExchange
    \/ LoopTop /\ NoExchange
    \/ Connect /\ NoExchange
    \/ FetchFail /\ NoExchange
    \/ \E s \in LevelSnapshots : FetchSnapshot(s) /\ NoExchange
    \/ Wake /\ NoExchange
    \/ \E d \in LevelDiffs, dt \in Elapsed : RecvDiff(d, dt) /\ NoExchange
    \/ \E kind \in MessageKinds : RecvOther(kind) /\ NoExchange

LevelSpec == FreeInit /\ [][LevelNext]_vars

----------------------------------------------------------------------------
(* ReconnectSpec: the messages come from an exchange that keeps a book,       *)
(* numbers its updates, publishes them in diffs on the websocket and serves   *)
(* depth snapshots of config.binance.snapshot_limit levels a side.  A second  *)
(* maintainer, connected from the start and never disconnected, runs          *)
(* apply_snapshot and apply_diff on the same messages.                        *)

\* config.binance.snapshot_limit
SnapshotLimit == 1

\* the exchange makes MaxExchangeId updates at most
MaxExchangeId == 3

\* a diff carries MaxBatch updates at most
MaxBatch == 2

ExchangeBidPrices == {2, 4}

ExchangeAskPrices == {6}

\* a bid is there or not, the ask changes its quantity
ExchangeBidQtys == {0, 1}

ExchangeAskQtys == {1, 2}

\* the books the exchange starts with: one level a side, or two bids
ExchangeBooks ==
    {[bids |-> Insert(EmptyMap, 4, 1), asks |-> Insert(EmptyMap, 6, 1), id |-> 0],
     [bids |-> Insert(Insert(EmptyMap, 2, 1), 4, 1), asks |-> Insert(EmptyMap, 6, 1), id |-> 0]}

\* the levels of the map m as the entries of a message, from the highest price
\* (hi) or from the lowest
RECURSIVE Entries(_, _)
Entries(m, hi) ==
    IF DOMAIN m = {} THEN <<>>
    ELSE LET p == IF hi THEN SetMax(DOMAIN m) ELSE SetMin(DOMAIN m)
         IN  <<Level(p, m[p])>> \o Entries(Remove(m, p), hi)

FirstN(es, n) == SubSeq(es, 1, IF Len(es) < n THEN Len(es) ELSE n)

\* the answer to GET depth?symbol=..&limit=snapshot_limit: the best levels
DepthSnapshotOf(ex) ==
    [last_update_id |-> ex.id,
     bids |-> FirstN(Entries(ex.bids, TRUE), SnapshotLimit),
     asks |-> FirstN(Entries(ex.asks, FALSE), SnapshotLimit)]

\* the snapshot of ex holds every level of ex
WholeBook(ex) ==
    /\ Cardinality(DOMAIN ex.bids) <= SnapshotLimit
    /\ Cardinality(DOMAIN ex.asks) <= SnapshotLimit

\* the entries es with the entry of price p replaced by (p, q)
WithEntry(es, p, q) == SelectSeq(es, LAMBDA e : e.price # p) \o <<Level(p, q)>>

\* the quantity of price p in the map m, 0 when m has no such level
QtyAt(m, p) == IF p \in DOMAIN m THEN m[p] ELSE 0

\* the websocket is open at these positions of run_connection
Connected == {"fetch", "stream"}

ReconnectInit ==
    /\ Init
    /\ exchange \in ExchangeBooks
    /\ pending = NoDiff
    /\ ws_queue = <<>>
    /\ ref_book = ApplySnapshot(NewBook, DepthSnapshotOf(exchange)).book
    /\ loads = [count |-> 0, whole |-> WholeBook(exchange)]
    /\ AppIdle

\* the exchange sets the bid at p to q (q = 0: removes it): update id + 1
ExchangeBid(p, q) ==
    /\ exchange.id < MaxExchangeId
    /\ pending.final_update_id - pending.first_update_id + 1 < MaxBatch
    /\ QtyAt(exchange.bids, p) # q
    /\ exchange' = [exchange EXCEPT !.bids = DiffLevel(@, Level(p, q)), !.id = @ + 1]
    /\ pending' = [first_update_id |-> IF pending = NoDiff THEN exchange.id + 1
                                       ELSE pending.first_update_id,
                   final_update_id |-> exchange.id + 1,
                   prev_final_update_id |-> NoPu,
                   bids |-> WithEntry(pending.bids, p, q),
                   asks |-> pending.asks]
    /\ UNCHANGED <<svc_vars, ws_queue, ref_book, loads, app_vars>>

\* the exchange sets the ask at p to q
ExchangeAsk(p, q) ==
    /\ exchange.id < MaxExchangeId
    /\ pending.final_update_id - pending.first_update_id + 1 < MaxBatch
    /\ QtyAt(exchange.asks, p) # q
    /\ exchange' = [exchange EXCEPT !.asks = DiffLevel(@, Level(p, q)), !.id = @ + 1]
    /\ pending' = [first_update_id |-> IF pending = NoDiff THEN exchange.id + 1
                                       ELSE pending.first_update_id,
                   final_update_id |-> exchange.id + 1,
                   prev_final_update_id |-> NoPu,
                   bids |-> pending.bids,
                   asks |-> WithEntry(pending.asks, p, q)]
    /\ UNCHANGED <<svc_vars, ws_queue, ref_book, loads, app_vars>>

\* the exchange publishes the updates since the last diff as one diff: the
\* maintainer that never disconnects applies it, the service gets it if its
\* websocket is open
Publish ==
    /\ pending # NoDiff
    /\ pending' = NoDiff
    /\ ref_book' = ApplyDiff(ref_book, pending).book
    /\ ws_queue' = IF pc \in Connected THEN Append(ws_queue, pending) ELSE ws_queue
    /\ UNCHANGED <<svc_vars, exchange, loads, app_vars>>

\* a step of the service that reads nothing from the websocket; the messages
\* not read are lost when the connection ends
Unread ==
    /\ ws_queue' = IF pc' \in Connected THEN ws_queue ELSE <<>>
    /\ UNCHANGED <<exchange, pending, ref_book, loads, app_vars, stop_seen>>

\* fetch_snapshot gets the exchange's snapshot of this instant
FetchDepth ==
    /\ FetchSnapshot(DepthSnapshotOf(exchange))
    /\ loads' = [count |-> IF loads.count < 2 THEN loads.count + 1 ELSE 2,
                 whole |-> loads.whole /\ WholeBook(exchange)]
    /\ UNCHANGED <<exchange, pending, ws_queue, ref_book, app_vars, stop_seen>>

\* the next diff of the websocket is read
ReadDiff(dt) ==
    /\ ws_queue # <<>>
    /\ RecvDiff(Head(ws_queue), dt)
    /\ ws_queue' = IF pc' \in Connected THEN Tail(ws_queue) ELSE <<>>
    /\ UNCHANGED <<exchange, pending, ref_book, loads, app_vars, stop_seen>>

ReconnectNext ==
    \/ Start /\ Unread
    \/ LoopTop /\ Unread
    \/ Connect /\ Unread
    \/ FetchFail /\ Unread
    \/ FetchDepth
    \/ Wake /\ Unread
    \/ \E dt \in Elapsed : ReadDiff(dt)
    \/ \E kind \in MessageKinds : RecvOther(kind) /\ Unread
    \/ \E p \in ExchangeBidPrices, q \in ExchangeBidQtys : ExchangeBid(p, q)
    \/ \E p \in ExchangeAskPrices, q \in ExchangeAskQtys : ExchangeAsk(p, q)
    \/ Publish

ReconnectSpec == ReconnectInit /\ [][ReconnectNext]_vars

----------------------------------------------------------------------------
(* Vocabulary of the properties *)

\* a step of the ingest loop that handled a diff: the loop was running and the
\* diff or what the loop did with it changed
DiffStep == pc = "stream" /\ running /\ <<diff, result>>' # <<diff, result>>

\* the first diff of a connection
FirstDiffStep == DiffStep /\ diff = NoDiff

\* the diff was discarded without any effect
Discarded ==
    /\ result' = "skip"
    /\ book' = book
    /\ mid_history' = mid_history
    /\ update_tx' = NoUpdate
    /\ pc' = "stream"

\* the loop stopped and the book was reset: run_connection returned for a resync
Resynced ==
    /\ result' = "gap"
    /\ book' = NewBook
    /\ pc' = "loop"

\* the entries of side es list the price p
Lists(es, p) == \E i \in 1..Len(es) : es[i].price = p

\* the quantity of the last entry of es that lists p
LastQty(es, p) ==
    es[CHOOSE i \in 1..Len(es) :
        es[i].price = p /\ \A j \in (i + 1)..Len(es) : es[j].price # p].qty

\* the prices es does not list are in after as they were in before
UnlistedKept(before, after, es) ==
    \A p \in (DOMAIN before) \cup (DOMAIN after) :
        ~Lists(es, p) => p \in DOMAIN before /\ p \in DOMAIN after /\ after[p] = before[p]

\* every entry of es took effect: (p, q) with q # 0 is in after, p with q = 0 is not
EveryEntrySet(before, after, es) ==
    /\ \A i \in 1..Len(es) :
          IF es[i].qty = 0 THEN es[i].price \notin DOMAIN after
          ELSE es[i].price \in DOMAIN after /\ after[es[i].price] = es[i].qty
    /\ UnlistedKept(before, after, es)

\* the last entry of every listed price took effect
LastEntrySet(before, after, es) ==
    /\ \A p \in {es[i].price : i \in 1..Len(es)} :
          IF LastQty(es, p) = 0 THEN p \notin DOMAIN after
          ELSE p \in DOMAIN after /\ after[p] = LastQty(es, p)
    /\ UnlistedKept(before, after, es)

\* apply_diff took the diff for already processed: it carries no
\* prev_final_update_id and ends at or before last
AlreadyProcessed(d, last) ==
    d.prev_final_update_id = NoPu /\ d.final_update_id <= last

\* the monotonic check of the synchronization protocol
Monotonic(d, last) ==
    IF d.prev_final_update_id # NoPu THEN d.prev_final_update_id = last
    ELSE d.first_update_id <= last + 1

Uncrossed(b) == \A x \in DOMAIN b.bids, y \in DOMAIN b.asks : x < y

----------------------------------------------------------------------------
(* C1 *)

\* C1 (as claimed): whenever the book is initialized and both sides hold a level,
\* the highest bid is strictly below the lowest ask, and no update sent has
\* its best bid at or above its best ask.
C1_NeverCrossed ==
    /\ (book.initialized /\ HasBid(book) /\ HasAsk(book)) => Uncrossed(book)
    /\ \A u \in update_tx : u.best_bid < u.best_ask

----------------------------------------------------------------------------
(* C2 *)

\* the first diff was applied: its levels are in the book, its final_update_id
\* is the book's, and the loop goes on
FirstApplied ==
    /\ result' = "applied"
    /\ book'.last_update_id = diff'.final_update_id
    /\ LastEntrySet(book.bids, book'.bids, diff'.bids)
    /\ LastEntrySet(book.asks, book'.asks, diff'.asks)
    /\ pc' = "stream"

\* C2 (as claimed): after a snapshot with last_update_id U the first diff [F, L]
\* is discarded when L <= U, applied when F <= U+1 <= L, and makes the loop
\* resync when F > U+1 (and L > U), whether or not it carries
\* prev_final_update_id.
C2_FirstDiffByRange ==
    [][FirstDiffStep =>
        LET U == snapshot.last_update_id
            F == diff'.first_update_id
            L == diff'.final_update_id
        IN  /\ L <= U => Discarded
            /\ (F <= U + 1 /\ U + 1 <= L) => FirstApplied
            /\ (F > U + 1 /\ L > U) => Resynced]_vars

----------------------------------------------------------------------------
(* C3 *)

\* C3: a diff the filter retains (L above the snapshot's last_update_id) is
\* applied only if it passes the monotonic check against the book's
\* last_update_id; a retained diff that fails it makes the loop stop and reset
\* the book; outside the stream loop no diff is handled, the book changes only
\* when a snapshot is loaded, and the loop is entered only by loading one.
C3_MonotonicOrResync ==
    /\ [][(DiffStep /\ ~BeforeSnapshot(diff', snapshot)) =>
            IF Monotonic(diff', book.last_update_id)
            THEN OkTrue(result') /\ pc' = "stream"
            ELSE Resynced]_vars
    /\ [][(pc = "stream" /\ pc' = "stream" /\ book' # book) =>
            (DiffStep /\ Monotonic(diff', book.last_update_id))]_vars
    /\ [][pc # "stream" =>
            /\ diff' \in {diff, NoDiff}
            /\ result' = result
            /\ book' # book => pc = "fetch"]_vars
    /\ [][(pc # "stream" /\ pc' = "stream") =>
            /\ pc = "fetch"
            /\ book'.initialized
            /\ book'.last_update_id = snapshot'.last_update_id
            /\ diff' = NoDiff]_vars

\* C3 witness: a diff that carries the snapshot's last_update_id as
\* prev_final_update_id came after another diff had been applied, failed the
\* check and made the loop resync
C3_Witness ==
    /\ pc = "loop"
    /\ result = "gap"
    /\ book = NewBook
    /\ diff.prev_final_update_id = snapshot.last_update_id
    /\ diff.final_update_id > snapshot.last_update_id

----------------------------------------------------------------------------
(* C4 *)

\* C4 (as claimed): whenever apply_diff returns Ok(true), last_update_id is
\* the diff's final_update_id afterwards.
C4_AcceptedSetsFinalId ==
    [][(DiffStep /\ OkTrue(result')) =>
        book'.last_update_id = diff'.final_update_id]_vars

\* C4 (amended): whenever apply_diff returns Ok(true), last_update_id is the
\* diff's final_update_id afterwards, unless the diff was taken for already
\* processed (no prev_final_update_id and L <= last_update_id): then
\* last_update_id is left as it was.
C4_AppliedSetsFinalId ==
    [][(DiffStep /\ OkTrue(result')) =>
        IF AlreadyProcessed(diff', book.last_update_id)
        THEN book'.last_update_id = book.last_update_id
        ELSE book'.last_update_id = diff'.final_update_id]_vars

\* C4 witness: a diff of more than one update was applied
C4_Witness ==
    /\ pc = "stream"
    /\ result = "applied"
    /\ diff.first_update_id < diff.final_update_id
    /\ book.last_update_id = diff.final_update_id

----------------------------------------------------------------------------
(* C5 *)

\* C5 (as claimed): while the stream loop runs, no step lowers last_update_id.
C5_NonDecreasing ==
    [][(pc = "stream" /\ pc' = "stream") =>
        book'.last_update_id >= book.last_update_id]_vars

----------------------------------------------------------------------------
(* C6 *)

\* C6 (as claimed): every level stored in the bid map or the ask map has a
\* strictly positive quantity.
C6_PositiveQuantities ==
    /\ \A p \in DOMAIN book.bids : book.bids[p] > 0
    /\ \A p \in DOMAIN book.asks : book.asks[p] > 0

----------------------------------------------------------------------------
(* C7 *)

\* C7 (as claimed): when a diff that apply_diff accepted arrives again, it is
\* taken for already processed, the book is left as it is and the loop goes on.
C7_RepeatIsNoOp ==
    [][(DiffStep /\ OkTrue(result) /\ diff' = diff) =>
        (result' = "processed" /\ book' = book /\ pc' = "stream")]_vars

----------------------------------------------------------------------------
(* C8 *)

\* every level of the map m is a level with a positive quantity that es lists
OnlyLevelsOf(m, es) ==
    \A p \in DOMAIN m :
        \E i \in 1..Len(es) : es[i].parses /\ es[i].price = p /\ es[i].qty = m[p] /\ m[p] > 0

\* C8: the step on which a sequence violation ends the loop leaves the book
\* uninitialized, both sides empty and last_update_id 0; from there the book
\* stays so until a snapshot is fetched; and the book a snapshot is loaded
\* into holds that snapshot's last_update_id and no level but the snapshot's.
C8_ResyncLeavesNothing ==
    /\ [][(DiffStep /\ OkFalse(result')) =>
            /\ book'.bids = EmptyMap
            /\ book'.asks = EmptyMap
            /\ book'.last_update_id = 0
            /\ ~book'.initialized
            /\ pc' = "loop"]_vars
    /\ [][(pc \in {"loop", "connect", "sleep", "done"}) => book' = book]_vars
    /\ [][(pc = "fetch" /\ pc' = "stream") =>
            /\ book'.initialized
            /\ book'.last_update_id = snapshot'.last_update_id
            /\ OnlyLevelsOf(book'.bids, snapshot'.bids)
            /\ OnlyLevelsOf(book'.asks, snapshot'.asks)]_vars

\* C8 witness: after a resync, a snapshot that does not list the bid at 2 of
\* the earlier snapshot and diffs has been loaded
C8_Witness ==
    /\ pc = "stream"
    /\ result = "gap"
    /\ diff = NoDiff
    /\ book.initialized
    /\ book.last_update_id = snapshot.last_update_id
    /\ book.bids = Insert(EmptyMap, 4, 1)

----------------------------------------------------------------------------
(* C10 *)

\* the update sent is the quote of the book b: the highest bid, the lowest ask
\* and their mean; nothing is sent when a side is empty
QuoteOf(tx, b) ==
    IF DOMAIN b.bids = {} \/ DOMAIN b.asks = {} THEN tx = NoUpdate
    ELSE \E u \in tx :
            /\ tx = {u}
            /\ u.best_bid \in DOMAIN b.bids
            /\ \A p \in DOMAIN b.bids : p <= u.best_bid
            /\ u.best_ask \in DOMAIN b.asks
            /\ \A p \in DOMAIN b.asks : u.best_ask <= p
            /\ 2 * u.mid = u.best_bid + u.best_ask

\* C10 (as claimed): a diff apply_diff accepts and applies sets every listed
\* (price, qty) with qty # 0, removes every listed price with qty = 0 and leaves
\* the other levels of both sides as they were; the quote sent afterwards has
\* the highest bid, the lowest ask and their mean.
C10_AcceptedSetsEveryEntry ==
    [][(DiffStep /\ result' = "applied") =>
        /\ EveryEntrySet(book.bids, book'.bids, diff'.bids)
        /\ EveryEntrySet(book.asks, book'.asks, diff'.asks)
        /\ QuoteOf(update_tx', book')]_vars

\* C10 (amended): a diff apply_diff accepts and does not take for already
\* processed gives every price it lists the quantity of the last entry that
\* lists it (the price is removed when that quantity is 0) and leaves the other
\* levels of both sides as they were; a diff taken for already processed
\* leaves the book as it is; the quote sent afterwards has the highest bid,
\* the lowest ask and their mean.
C10_AppliedSetsLastEntry ==
    [][(DiffStep /\ OkTrue(result')) =>
        /\ IF AlreadyProcessed(diff', book.last_update_id)
           THEN book' = book
           ELSE /\ LastEntrySet(book.bids, book'.bids, diff'.bids)
                /\ LastEntrySet(book.asks, book'.asks, diff'.asks)
        /\ QuoteOf(update_tx', book')]_vars

\* C10 witness: the diff removed the best bid at 4: the bid at 2 and the ask
\* at 6 are the quote, 4 the mid
C10_Witness ==
    /\ pc = "stream"
    /\ result = "applied"
    /\ diff.bids = <<Level(4, 0)>>
    /\ book.bids = Insert(EmptyMap, 2, 1)
    /\ book.asks = Insert(EmptyMap, 6, 1)
    /\ \E u \in update_tx : u.best_bid = 2 /\ u.best_ask = 6 /\ u.mid = 4

----------------------------------------------------------------------------
(* C9 *)

\* the service and the maintainer that never disconnects have applied the same
\* final diff
SameFinalDiff ==
    /\ pc = "stream"
    /\ diff # NoDiff
    /\ result = "applied"
    /\ ref_book.last_update_id = diff.final_update_id

SameLevels ==
    /\ book.bids = ref_book.bids
    /\ book.asks = ref_book.asks
    /\ book.last_update_id = ref_book.last_update_id

\* C9 (as claimed): once the service, connected and reconnected at any points,
\* and a maintainer that never disconnected have applied the same final diff,
\* their books hold the same bids, asks and last_update_id.
C9_ReconnectSameBook == SameFinalDiff => SameLevels

\* C9 (amended): the same, provided every snapshot loaded (by either
\* maintainer) held every level of the exchange's book: the book had no more
\* than snapshot_limit levels a side when the snapshot was fetched.
C9_ReconnectSameBookWhole == (SameFinalDiff /\ loads.whole) => SameLevels

\* C9 witness: the service loaded a second snapshot later than the other
\* maintainer's, every snapshot held the whole book, and both applied the diff
\* that sets the ask at 6 to 2
C9_Witness ==
    /\ SameFinalDiff
    /\ loads.whole
    /\ loads.count = 2
    /\ snapshot.last_update_id > 0
    /\ diff.asks = <<Level(6, 2)>>
    /\ SameLevels
    /\ book.asks = Insert(EmptyMap, 6, 2)

----------------------------------------------------------------------------
(* Part 2: the trade gate (src/src/services/trade.rs), the order client's     *)
(* place_order (src/src/services/clob.rs), the quote state it reads           *)
(* (src/src/services/polymarket.rs) and the start-up of main                  *)
(* (src/src/main.rs).                                                         *)
(*                                                                            *)
(* Prices are integers in thousandths (0.948 is 948), sizes are whole         *)
(* shares.  No price ends in 5, so that rounding to cents never meets a tie.  *)
(* quote_state.last_update_ms is kept as the age of the last update, Never    *)
(* where the code holds 0.                                                    *)

Sides == {"YES", "NO"}

\* Option<f64>::None of a quote
NoQuote == -1

\* last_update_ms = 0: no quote was ever received
Never == -1

\* i64::MAX, at the width of the integers of TLC
I64Max == 2147483647

\* TradingConfig
MaxSize == 5

DefaultSizes == {5, 10}

MaxSpread == 100

StaleQuoteThresholdMs == 5000

ConfigMaxPricesYes == {950, 958}

ConfigMaxPricesNo == {950}

\* the steps of the operator's keys '+', '-' and '[', ']', '{', '}'
SizeDeltas == {-5, 5}

PriceDeltas == {-10, 10}

\* the range of caps that TradeSpec follows the operator's keys to
MinCap == 950

MaxCap == 960

Min(a, b) == IF a < b THEN a ELSE b

Max(a, b) == IF a > b THEN a ELSE b

\* TradingState::new
NewTradingState(default_size, max_price_yes, max_price_no) ==
    [kill_switch_active |-> FALSE,
     current_size |-> default_size,
     max_price_yes |-> max_price_yes,
     max_price_no |-> max_price_no]

\* QuoteState::default
NewQuoteState ==
    [yes_bid |-> NoQuote, yes_ask |-> NoQuote,
     no_bid |-> NoQuote, no_ask |-> NoQuote, age |-> Never]

\* PolymarketService::get_staleness_ms
GetStalenessMs(q) == IF q.age = Never THEN I64Max ELSE q.age

\* ActiveMarket::default and a market found by refresh_market_tokens
NoTarget == -1

NoMarket ==
    [condition_id |-> "", up_token_id |-> "", down_token_id |-> "",
     slug |-> "", title |-> "", start_time |-> "", end_date |-> "",
     target_price |-> NoTarget]

Market(c) ==
    [condition_id |-> c, up_token_id |-> c \o "-up", down_token_id |-> c \o "-down",
     slug |-> c \o "-slug", title |-> c \o "-title", start_time |-> c \o "-start",
     end_date |-> c \o "-end", target_price |-> NoTarget]

\* the five checks of check_risk, in the order of the code: the reason of the
\* first one that fails, "allowed" when none does
CheckRiskIgnoringKill(st, q, side, size, limit_price) ==
    LET bid == IF side = "YES" THEN q.yes_bid ELSE q.no_bid
        ask == IF side = "YES" THEN q.yes_ask ELSE q.no_ask
        max_price == IF side = "YES" THEN st.max_price_yes ELSE st.max_price_no
    IN  IF size > MaxSize THEN "size"
        ELSE IF GetStalenessMs(q) > StaleQuoteThresholdMs THEN "stale"
        ELSE IF limit_price > max_price THEN "price"
        ELSE IF bid # NoQuote /\ ask # NoQuote /\ ask - bid > MaxSpread THEN "spread"
        ELSE "allowed"

CheckRiskSpreadFirst(st, q, side, size, limit_price) ==
    LET bid == IF side = "YES" THEN q.yes_bid ELSE q.no_bid
        ask == IF side = "YES" THEN q.yes_ask ELSE q.no_ask
        max_price == IF side = "YES" THEN st.max_price_yes ELSE st.max_price_no
    IN  IF bid # NoQuote /\ ask # NoQuote /\ ask - bid > MaxSpread THEN "spread"
        ELSE IF st.kill_switch_active THEN "kill"
        ELSE IF size > MaxSize THEN "size"
        ELSE IF GetStalenessMs(q) > StaleQuoteThresholdMs THEN "stale"
        ELSE IF limit_price > max_price THEN "price"
        ELSE "allowed"

CheckRisk(st, q, side, size, limit_price) ==
    LET bid == IF side = "YES" THEN q.yes_bid ELSE q.no_bid
        ask == IF side = "YES" THEN q.yes_ask ELSE q.no_ask
        max_price == IF side = "YES" THEN st.max_price_yes ELSE st.max_price_no
    IN  IF st.kill_switch_active THEN "kill"
        ELSE IF size > MaxSize THEN "size"
        ELSE IF GetStalenessMs(q) > StaleQuoteThresholdMs THEN "stale"
        ELSE IF limit_price > max_price THEN "price"
        ELSE IF bid # NoQuote /\ ask # NoQuote /\ ask - bid > MaxSpread THEN "spread"
        ELSE "allowed"

\* the limit price of place_order: the best ask capped by the side's max price,
\* the max price when there is no ask
LimitPrice(st, q, side) ==
    LET ask == IF side = "YES" THEN q.yes_ask ELSE q.no_ask
        max_price == IF side = "YES" THEN st.max_price_yes ELSE st.max_price_no
    IN  IF ask # NoQuote THEN Min(ask, max_price) ELSE max_price

\* format!("{:.2}", limit_price): the nearest cent, in thousandths
FormatPriceDown(p) == 10 * (p \div 10)

FormatPrice(p) == 10 * ((p + 5) \div 10)

TradeEvent(o, mode, reason, status) ==
    [side |-> o.side, size |-> o.size, limit_price |-> o.limit_price,
     post_only |-> TRUE, mode |-> mode,
     risk_reject_reason |-> reason, api_status |-> status]

OrderRequest(token_id, limit_price, size) ==
    [token_id |-> token_id, price |-> FormatPrice(limit_price), size |-> size,
     side |-> "BUY", order_type |-> "GTC"]

\* no place_order call was made yet
NoOrder ==
    [pc |-> "idle", side |-> "none", size |-> 0, limit_price |-> 0,
     risk |-> "none", logged |-> <<>>, actions |-> 0, sent |-> <<>>,
     ret |-> [kind |-> "none", error |-> ""]]

OkEvent == [kind |-> "Ok", error |-> ""]

Err(e) == [kind |-> "Err", error |-> e]

\* self.logger.log_trade(event)?; then the value v: the logger's error when
\* the write fails
LogThen(written, v) == IF written THEN v ELSE Err("log")

\* main: dry_run of the command line, the credentials of the configuration and
\* the outcome of check_auth, which main only reports
Sessions ==
    {[dry_run |-> TRUE, credentials |-> TRUE, auth |-> "passed"],
     [dry_run |-> FALSE, credentials |-> TRUE, auth |-> "passed"],
     [dry_run |-> FALSE, credentials |-> TRUE, auth |-> "failed"],
     [dry_run |-> FALSE, credentials |-> FALSE, auth |-> "none"]}

TradeInit ==
    /\ Init
    /\ ExchangeIdle
    /\ ScraperIdle
    /\ CallerIdle
    /\ FetchIdle
    /\ LockIdle
    /\ \E d \in DefaultSizes, y \in ConfigMaxPricesYes, n \in ConfigMaxPricesNo :
           state = NewTradingState(d, y, n)
    /\ quote_state = NewQuoteState
    /\ active_market = NoMarket
    /\ order = NoOrder
    /\ session \in Sessions
    /\ SignalIdle
    /\ MarketIdle

\* --- the operator's keys; the TUI loop runs one command at a time ---

ToggleKillSwitch ==
    /\ order.pc = "idle"
    /\ state' = [state EXCEPT !.kill_switch_active = ~@]
    /\ UNCHANGED <<quote_state, active_market, order, session>>

AdjustSize(delta) ==
    /\ order.pc = "idle"
    /\ state' = [state EXCEPT !.current_size = Min(Max(@ + delta, 1), MaxSize)]
    /\ UNCHANGED <<quote_state, active_market, order, session>>

ClampAbove(x, lo, hi) == Min(x, hi)

\* f64::clamp
Clamp(x, lo, hi) == Min(Max(x, lo), hi)

AdjustMaxPrice(side, delta) ==
    /\ order.pc = "idle"
    /\ LET cap == IF side = "YES" THEN state.max_price_yes ELSE state.max_price_no
           new == Clamp(cap + delta, 10, 990)
       IN  state' = IF side = "YES" THEN [state EXCEPT !.max_price_yes = new]
                                   ELSE [state EXCEPT !.max_price_no = new]
    /\ UNCHANGED <<quote_state, active_market, order, session>>

\* the caps the operator's keys are followed to
CapFollowed(st, side) ==
    (IF side = "YES" THEN st.max_price_yes ELSE st.max_price_no) \in MinCap..MaxCap

\* --- the quote feed ---

\* a price change or a book message for the token of one side: the bid and
\* the ask it carries are stored (NoQuote: the message has none), the state
\* is fresh
QuoteUpdate(side, bid, ask) ==
    /\ active_market # NoMarket
    /\ quote_state' =
         IF side = "YES"
         THEN [quote_state EXCEPT
                 !.yes_bid = IF bid # NoQuote THEN bid ELSE @,
                 !.yes_ask = IF ask # NoQuote THEN ask ELSE @,
                 !.age = 0]
         ELSE [quote_state EXCEPT
                 !.no_bid = IF bid # NoQuote THEN bid ELSE @,
                 !.no_ask = IF ask # NoQuote THEN ask ELSE @,
                 !.age = 0]
    /\ UNCHANGED <<state, active_market, order, session>>

\* time passes without a quote
QuoteAges == {StaleQuoteThresholdMs, StaleQuoteThresholdMs + 1}

QuoteAge(a) ==
    /\ quote_state.age # Never
    /\ a > quote_state.age
    /\ quote_state' = [quote_state EXCEPT !.age = a]
    /\ UNCHANGED <<state, active_market, order, session>>

\* refresh_market_tokens finds the market
MarketFound ==
    /\ active_market = NoMarket
    /\ active_market' = Market("c1")
    /\ UNCHANGED <<state, quote_state, order, session>>

\* --- place_order ---

\* the size and the caps are read, then the quotes: the limit price
PlaceOrder(side) ==
    /\ order.pc = "idle"
    /\ order' = [NoOrder EXCEPT !.pc = "check", !.side = side,
                                !.size = state.current_size,
                                !.limit_price = LimitPrice(state, quote_state, side)]
    /\ UNCHANGED <<state, quote_state, active_market, session>>

\* check_risk; a rejected order, a dry run and a live order without a token
\* end the call here, a live order is handed to the order client
RejectedUnlogged(reason, written) ==
    /\ reason # "allowed"
    /\ order' = [order EXCEPT
         !.pc = "done", !.risk = reason, !.actions = @ + 1,
         !.ret = LogThen(written, Err(reason))]

Rejected(reason, written) ==
    /\ reason # "allowed"
    /\ order' = [order EXCEPT
         !.pc = "done", !.risk = reason, !.actions = @ + 1,
         !.logged = Append(@, TradeEvent(order,
                       IF session.dry_run THEN "dry_run" ELSE "live", reason, "none")),
         !.ret = LogThen(written, Err(reason))]

DryRun(reason, written) ==
    /\ reason = "allowed"
    /\ session.dry_run
    /\ order' = [order EXCEPT
         !.pc = "done", !.risk = reason, !.actions = @ + 1,
         !.logged = Append(@, TradeEvent(order, "dry_run", "none", "dry_run_success")),
         !.ret = LogThen(written, OkEvent)]

TokenOfUp(side) == active_market.up_token_id

TokenOf(side) ==
    IF side = "YES" THEN active_market.up_token_id ELSE active_market.down_token_id

NoActiveMarket(reason, written) ==
    /\ reason = "allowed"
    /\ ~session.dry_run
    /\ TokenOf(order.side) = ""
    /\ order' = [order EXCEPT
         !.pc = "done", !.risk = reason, !.actions = @ + 1,
         !.logged = Append(@, TradeEvent(order, "live", "none", "no_active_market")),
         !.ret = LogThen(written, Err("no_active_market"))]

\* ClobClient::place_order without credentials, or failing to sign: no request
NotSent(reason, written) ==
    /\ reason = "allowed"
    /\ ~session.dry_run
    /\ session.credentials \in BOOLEAN
    /\ TokenOf(order.side) # ""
    /\ order' = [order EXCEPT
         !.pc = "done", !.risk = reason, !.actions = @ + 2,
         !.logged = Append(@, TradeEvent(order, "live", "none", "error")),
         !.ret = LogThen(written, Err("api"))]

SentAnyMode(reason) ==
    /\ reason = "allowed"
    /\ session.credentials
    /\ TokenOf(order.side) # ""
    /\ order' = [order EXCEPT
         !.pc = "await", !.risk = reason,
         !.sent = Append(@, OrderRequest(TokenOf(order.side), order.limit_price,
                                         order.size))]

Sent(reason) ==
    /\ reason = "allowed"
    /\ ~session.dry_run
    /\ session.credentials
    /\ TokenOf(order.side) # ""
    /\ order' = [order EXCEPT
         !.pc = "await", !.risk = reason,
         !.sent = Append(@, OrderRequest(TokenOf(order.side), order.limit_price,
                                         order.size))]

CheckAndSubmit(written) ==
    /\ order.pc = "check"
    /\ LET reason == CheckRisk(state, quote_state, order.side, order.size,
                               order.limit_price)
       IN  \/ Rejected(reason, written)
           \/ DryRun(reason, written)
           \/ NoActiveMarket(reason, written)
           \/ NotSent(reason, written)
           \/ Sent(reason)
    /\ UNCHANGED <<state, quote_state, active_market, session>>

\* the answer of the exchange: accepted, refused (success = false), or no
\* answer that parses
Responses == {"success", "refused", "failed"}

OrderResponse(response, written) ==
    /\ order.pc = "await"
    /\ order' = [order EXCEPT
         !.pc = "done",
         !.actions = @ + (IF response = "success" THEN 1 ELSE 2),
         !.logged = Append(@, TradeEvent(order, "live", "none",
                       IF response = "success" THEN "success" ELSE "error")),
         !.ret = LogThen(written, IF response = "failed" THEN Err("api") ELSE OkEvent)]
    /\ UNCHANGED <<state, quote_state, active_market, session>>

\* place_order returns to the TUI loop
Return ==
    /\ order.pc = "done"
    /\ order' = NoOrder
    /\ UNCHANGED <<state, quote_state, active_market, session>>

\* the quotes the feed is given
YesBids == {NoQuote, 300, 480}

YesAsks == {NoQuote, 500, 962}

NoBids == {NoQuote}

NoAsks == {NoQuote, 500}

Idle == UNCHANGED <<svc_vars, ex_vars, signal_vars, market_vars, scraper_vars, lock_vars, caller_vars, fetch_vars>>

TradeNext ==
    \/ ToggleKillSwitch /\ Idle
    \/ \E delta \in SizeDeltas : AdjustSize(delta) /\ Idle
    \/ \E side \in Sides, delta \in PriceDeltas :
           AdjustMaxPrice(side, delta) /\ CapFollowed(state', side) /\ Idle
    \/ \E bid \in YesBids, ask \in YesAsks : QuoteUpdate("YES", bid, ask) /\ Idle
    \/ \E bid \in NoBids, ask \in NoAsks : QuoteUpdate("NO", bid, ask) /\ Idle
    \/ \E a \in QuoteAges : QuoteAge(a) /\ Idle
    \/ MarketFound /\ Idle
    \/ \E side \in Sides : PlaceOrder(side) /\ Idle
    \/ \E written \in BOOLEAN : CheckAndSubmit(written) /\ Idle
    \/ \E response \in Responses, written \in BOOLEAN :
           OrderResponse(response, written) /\ Idle
    \/ Return /\ Idle

TradeSpec == TradeInit /\ [][TradeNext]_vars

----------------------------------------------------------------------------
(* Part 3: the signal evaluator (src/src/services/signal.rs).                 *)
(*                                                                            *)
(* Returns and their thresholds are integers in ten-thousandths (0.0015 is    *)
(* 15), confidences and min_confidence are integers in tenths (0.5 is 5).     *)

\* binance.get_returns(..): None, or Some return
NoReturn == {}

Some(v) == {v}

UnwrapOr(o, d) == IF o = {} THEN d ELSE CHOOSE v \in o : TRUE

\* SignalState::default
NewSignalState ==
    [suggested_side |-> "none", confidence |-> 0,
     binance_ret_1s |-> 0, binance_ret_3s |-> 0, poly_lag_ms |-> 0]

\* the side and the score of compute_signal for the returns of 1 s and 3 s and
\* the staleness of the quotes
SignalWithoutLag(cfg, ret_1s, ret_3s, poly_stale_ms) ==
    LET significant_up_1s == ret_1s > cfg.binance_return_threshold_1s
        significant_down_1s == ret_1s < -cfg.binance_return_threshold_1s
        significant_up_3s == ret_3s > cfg.binance_return_threshold_3s
        significant_down_3s == ret_3s < -cfg.binance_return_threshold_3s
        side1 == IF significant_up_1s THEN "YES"
                 ELSE IF significant_down_1s THEN "NO"
                 ELSE "none"
        score1 == IF side1 # "none" THEN 5 ELSE 0
        score == IF significant_up_3s /\ side1 = "YES" THEN score1 + 3
                 ELSE IF significant_down_3s /\ side1 = "NO" THEN score1 + 3
                 ELSE score1
    IN  IF score < cfg.min_confidence
        THEN [suggested_side |-> "none", confidence |-> 0]
        ELSE [suggested_side |-> side1, confidence |-> score]

SignalUncleared(cfg, ret_1s, ret_3s, poly_stale_ms) ==
    LET significant_up_1s == ret_1s > cfg.binance_return_threshold_1s
        significant_down_1s == ret_1s < -cfg.binance_return_threshold_1s
        significant_up_3s == ret_3s > cfg.binance_return_threshold_3s
        significant_down_3s == ret_3s < -cfg.binance_return_threshold_3s
        poly_lagging == poly_stale_ms > cfg.poly_lag_threshold_ms
        side1 == IF significant_up_1s /\ poly_lagging THEN "YES"
                 ELSE IF significant_down_1s /\ poly_lagging THEN "NO"
                 ELSE "none"
        score1 == IF side1 # "none" THEN 5 ELSE 0
        score == IF significant_up_3s /\ side1 = "YES" THEN score1 + 3
                 ELSE IF significant_down_3s /\ side1 = "NO" THEN score1 + 3
                 ELSE score1
    IN  [suggested_side |-> side1, confidence |-> score]

Signal(cfg, ret_1s, ret_3s, poly_stale_ms) ==
    LET significant_up_1s == ret_1s > cfg.binance_return_threshold_1s
        significant_down_1s == ret_1s < -cfg.binance_return_threshold_1s
        significant_up_3s == ret_3s > cfg.binance_return_threshold_3s
        significant_down_3s == ret_3s < -cfg.binance_return_threshold_3s
        poly_lagging == poly_stale_ms > cfg.poly_lag_threshold_ms
        side1 == IF significant_up_1s /\ poly_lagging THEN "YES"
                 ELSE IF significant_down_1s /\ poly_lagging THEN "NO"
                 ELSE "none"
        score1 == IF side1 # "none" THEN 5 ELSE 0
        score == IF significant_up_3s /\ side1 = "YES" THEN score1 + 3
                 ELSE IF significant_down_3s /\ side1 = "NO" THEN score1 + 3
                 ELSE score1
    IN  IF score < cfg.min_confidence
        THEN [suggested_side |-> "none", confidence |-> 0]
        ELSE [suggested_side |-> side1, confidence |-> score]

\* compute_signal: the state is replaced, the event is sent when a side is
\* suggested
ComputeSignal(r1, r3) ==
    LET ret_1s == UnwrapOr(r1, 0)
        ret_3s == UnwrapOr(r3, 0)
        poly_stale_ms == GetStalenessMs(quote_state)
        sig == Signal(signal_config, ret_1s, ret_3s, poly_stale_ms)
        new == [suggested_side |-> sig.suggested_side,
                confidence |-> sig.confidence,
                binance_ret_1s |-> ret_1s, binance_ret_3s |-> ret_3s,
                poly_lag_ms |-> poly_stale_ms]
    IN  /\ signal_state' = new
        /\ signal_tx' = IF new.suggested_side # "none" THEN {new} ELSE {}
        /\ UNCHANGED signal_config

\* SignalConfig: thresholds of the return magnitudes, of the lag, of the
\* confidence
ReturnThresholds1s == {0, 10}

ReturnThresholds3s == {20}

PolyLagThresholdMs == 500

MinConfidences == {0, 5, 6, 9}

SignalConfigs ==
    [binance_return_threshold_1s : ReturnThresholds1s,
     binance_return_threshold_3s : ReturnThresholds3s,
     poly_lag_threshold_ms : {PolyLagThresholdMs},
     min_confidence : MinConfidences]

\* the returns get_returns gives, and the ages of the quotes
Returns1s == {NoReturn} \cup {Some(r) : r \in {-15, 10, 15}}

Returns3s == {NoReturn} \cup {Some(r) : r \in {-25, 15, 25}}

LagAges == {100, PolyLagThresholdMs, 700}

SignalInit ==
    /\ Init
    /\ ExchangeIdle
    /\ ScraperIdle
    /\ CallerIdle
    /\ FetchIdle
    /\ LockIdle
    /\ TradeIdle
    /\ quote_state = NewQuoteState
    /\ active_market = Market("c1")
    /\ signal_config \in SignalConfigs
    /\ signal_state = NewSignalState
    /\ signal_tx = {}
    /\ MarketIdle

SignalNext ==
    \/ \E r1 \in Returns1s, r3 \in Returns3s :
           ComputeSignal(r1, r3)
               /\ UNCHANGED <<svc_vars, ex_vars, trade_vars, market_vars, scraper_vars, lock_vars, caller_vars, fetch_vars>>
    \/ \E ask \in YesAsks : QuoteUpdate("YES", NoQuote, ask) /\ Idle
    \/ \E a \in LagAges : QuoteAge(a) /\ Idle

SignalSpec == SignalInit /\ [][SignalNext]_vars

----------------------------------------------------------------------------
(* Part 4: the active market descriptor and its target price: the start task  *)
(* of the quote maintainer (src/src/services/polymarket.rs), the catalog's    *)
(* check_for_new_market (src/src/services/gamma.rs) and the snapshot task of  *)
(* main (src/src/main.rs), which clears and sets the target price and spawns  *)
(* the fetch of the price to beat.  The tasks run on different threads: a     *)
(* tick of the snapshot task is three steps, its copy of the descriptor may   *)
(* be stale when it acts.                                                     *)

\* the condition ids of the markets the catalog lists
Conditions == {"c1", "c2"}

\* gamma.rs, get_market_by_slug: the catalog's answer for the slug of one
\* window: Ok(None) on 404, an error (the request fails, another status, a
\* body that is no market), or the market.  accepting_orders is an Option,
\* clob_token_ids the array held by the JSON string, none when the field is
\* absent or does not parse
Missing == [kind |-> "missing"]

FetchError == [kind |-> "error"]

Listed(c, accepting_orders, closed, clob_token_ids) ==
    [kind |-> "market", condition_id |-> c, slug |-> c \o "-slug",
     question |-> c \o "-title", start_time |-> c \o "-start",
     end_date |-> c \o "-end", accepting_orders |-> accepting_orders,
     closed |-> closed, clob_token_ids |-> clob_token_ids]

TokenIds(c) == <<c \o "-up", c \o "-down">>

Open(c) == Listed(c, Some(TRUE), FALSE, Some(TokenIds(c)))

Ok(v) == [kind |-> "Ok", value |-> v]

\* parse_market_tokens: the first token id is "up", the second "down"
ParseMarketTokens(market) ==
    IF market.clob_token_ids = NoReturn
    THEN Err("no clobTokenIds")
    ELSE LET token_ids == UnwrapOr(market.clob_token_ids, <<>>) IN
         IF Len(token_ids) < 2
         THEN Err("token ids")
         ELSE Ok([up_token_id |-> token_ids[1], down_token_id |-> token_ids[2],
                  condition_id |-> market.condition_id, slug |-> market.slug,
                  title |-> market.question, start_time |-> market.start_time,
                  end_date |-> market.end_date])

\* get_current_btc_15m_market: the windows in the order they are tried
Timestamps == <<"current", "next", "previous">>

AcceptsOrders(answer) ==
    /\ answer.kind = "market"
    /\ UnwrapOr(answer.accepting_orders, FALSE)
    /\ ~answer.closed

RECURSIVE TryFromPrevious(_, _)
TryFromPrevious(cat, i) ==
    IF i < 1
    THEN Err("no active market")
    ELSE IF AcceptsOrders(cat[Timestamps[i]])
         THEN ParseMarketTokens(cat[Timestamps[i]])
         ELSE TryFromPrevious(cat, i - 1)

GetMarketTriedBackwards(cat) == TryFromPrevious(cat, Len(Timestamps))

RECURSIVE TryFrom(_, _)
TryFrom(cat, i) ==
    IF i > Len(Timestamps)
    THEN Err("no active market")
    ELSE IF AcceptsOrders(cat[Timestamps[i]])
         THEN ParseMarketTokens(cat[Timestamps[i]])
         ELSE TryFrom(cat, i + 1)

GetCurrentBtc15mMarket(cat) == TryFrom(cat, 1)

\* check_for_new_market: Ok(Some(tokens)) when the condition id differs,
\* Ok(None) when it does not, the error of the discovery
CheckForNewMarket(cat, current_condition_id) ==
    LET tokens == GetCurrentBtc15mMarket(cat) IN
    IF tokens.kind = "Err"
    THEN tokens
    ELSE IF tokens.value.condition_id # current_condition_id
         THEN Ok(Some(tokens.value))
         ELSE Ok(NoReturn)

\* the descriptor written from the tokens: every field, the target price unset
ActiveMarket(tokens) ==
    [condition_id |-> tokens.condition_id, up_token_id |-> tokens.up_token_id,
     down_token_id |-> tokens.down_token_id, slug |-> tokens.slug,
     title |-> tokens.title, start_time |-> tokens.start_time,
     end_date |-> tokens.end_date, target_price |-> NoTarget]

\* the catalogs the maintainer meets: the current window's market open, the
\* current one closed and the next one open, and the catalog out of reach
Catalog(current, next, previous) ==
    [current |-> current, next |-> next, previous |-> previous]

MarketCatalogs ==
    {Catalog(Open("c1"), Missing, Missing),
     Catalog(Listed("c1", Some(TRUE), TRUE, Some(TokenIds("c1"))), Open("c2"), Missing),
     Catalog(FetchError, FetchError, FetchError)}

\* the price of the reference feed (NoTarget: none yet), and the price found
\* on the event page (NoTarget: none found)
ChainlinkPrices == {NoTarget, 100, 101}

ScrapedPrices == {NoTarget, 102}

\* the fetches of the price to beat that are followed at a time
MaxScrapers == 2

NewTick ==
    [pc |-> "wait", last_condition_id |-> "", active_market |-> NoMarket,
     window_started |-> FALSE]

\* no subscription: no websocket session is open
NoAssets == {}

MarketInit ==
    /\ Init
    /\ ExchangeIdle
    /\ ScraperIdle
    /\ CallerIdle
    /\ FetchIdle
    /\ LockIdle
    /\ TradeIdle
    /\ SignalIdle
    /\ quote_state = NewQuoteState
    /\ active_market = NoMarket
    /\ poly_pc = "start"
    /\ tick = NewTick
    /\ scrapers = 0
    /\ market_op = "none"
    /\ catalog \in MarketCatalogs
    /\ assets_ids = NoAssets
    /\ check_due = FALSE

\* the catalog lists other markets, or answers differently
CatalogChanges(cat) ==
    /\ cat # catalog
    /\ catalog' = cat
    /\ UNCHANGED <<poly_pc, tick, scrapers, market_op, assets_ids, check_due,
                   active_market, quote_state>>

\* refresh_market_tokens: the discovery's error is returned before the
\* descriptor is touched; on success every field is overwritten with the
\* catalog's market and the target price is unset
RefreshMarketTokensOrClear ==
    LET tokens == GetCurrentBtc15mMarket(catalog) IN
    IF tokens.kind = "Ok"
    THEN /\ active_market' = ActiveMarket(tokens.value)
         /\ market_op' = "refresh"
    ELSE /\ active_market' = [active_market EXCEPT !.target_price = NoTarget]
         /\ market_op' = "refresh_failed"

RefreshMarketTokens ==
    LET tokens == GetCurrentBtc15mMarket(catalog) IN
    IF tokens.kind = "Ok"
    THEN /\ active_market' = ActiveMarket(tokens.value)
         /\ market_op' = "refresh"
    ELSE /\ UNCHANGED active_market
         /\ market_op' = "refresh_failed"

RefreshSucceeds == GetCurrentBtc15mMarket(catalog).kind = "Ok"

\* start: the first refresh; its failure ends the service
StartRefresh ==
    /\ poly_pc = "start"
    /\ RefreshSucceeds
    /\ RefreshMarketTokens
    /\ poly_pc' = "connect"
    /\ UNCHANGED <<tick, scrapers, catalog, assets_ids, check_due, quote_state>>

StartFailsAndConnects ==
    /\ poly_pc = "start"
    /\ ~RefreshSucceeds
    /\ RefreshMarketTokens
    /\ poly_pc' = "connect"
    /\ UNCHANGED <<tick, scrapers, catalog, assets_ids, check_due, quote_state>>

StartFails ==
    /\ poly_pc = "start"
    /\ ~RefreshSucceeds
    /\ RefreshMarketTokens
    /\ poly_pc' = "stopped"
    /\ UNCHANGED <<tick, scrapers, catalog, assets_ids, check_due, quote_state>>

\* run_connection returns an error before the stream is read
ConnectFails ==
    /\ poly_pc = "connect"
    /\ poly_pc' = "refresh"
    /\ UNCHANGED <<active_market, tick, scrapers, market_op, catalog,
                   assets_ids, check_due, quote_state>>

\* connected and subscribed to the two tokens of the copy of the descriptor
\* taken when run_connection began; last_market_check = now
SubscribedToNone ==
    /\ poly_pc = "connect"
    /\ poly_pc' = "stream"
    /\ assets_ids' = NoAssets
    /\ check_due' = FALSE
    /\ UNCHANGED <<active_market, tick, scrapers, market_op, catalog, quote_state>>

Subscribed ==
    /\ poly_pc = "connect"
    /\ poly_pc' = "stream"
    /\ assets_ids' = {active_market.up_token_id, active_market.down_token_id}
    /\ check_due' = FALSE
    /\ UNCHANGED <<active_market, tick, scrapers, market_op, catalog, quote_state>>

\* start, after an error of run_connection: the tokens are refreshed, then
\* the task sleeps 5 s and connects again
ReconnectRefresh ==
    /\ poly_pc = "refresh"
    /\ RefreshSucceeds
    /\ RefreshMarketTokens
    /\ poly_pc' = "connect"
    /\ UNCHANGED <<tick, scrapers, catalog, assets_ids, check_due, quote_state>>

ReconnectRefreshFails ==
    /\ poly_pc = "refresh"
    /\ ~RefreshSucceeds
    /\ RefreshMarketTokens
    /\ poly_pc' = "connect"
    /\ UNCHANGED <<tick, scrapers, catalog, assets_ids, check_due, quote_state>>

\* more than 60 s have passed since last_market_check
MarketCheckInterval ==
    /\ poly_pc = "stream"
    /\ ~check_due
    /\ check_due' = TRUE
    /\ UNCHANGED <<active_market, poly_pc, tick, scrapers, market_op, catalog,
                   assets_ids, quote_state>>

\* a price string of a stream message, and what str::parse::<f64> makes of it
PriceString(p) == [parses |-> TRUE, price |-> p]

Unparsable == [parses |-> FALSE, price |-> NoQuote]

\* a PriceChange entry, a BookMessage (the levels kept as their price
\* strings, in the order of the array), and the texts handle_message tells
\* apart
PriceChange(asset_id, best_bid, best_ask) ==
    [asset_id |-> asset_id, best_bid |-> best_bid, best_ask |-> best_ask]

BookMessage(asset_id, bids, asks) ==
    [asset_id |-> asset_id, bids |-> bids, asks |-> asks]

PriceChangeText(price_changes) == [kind |-> "price_changes", price_changes |-> price_changes]

BooksText(books) == [kind |-> "books", books |-> books]

BookText(bookmsg) == [kind |-> "book", book |-> bookmsg]

OtherText == [kind |-> "other"]

\* the websocket messages: Text, Ping, Close, an error of the stream
Text(text) == [kind |-> "text", text |-> text]

Ping == [kind |-> "ping"]

Close == [kind |-> "close"]

StreamError == [kind |-> "error"]

\* the assignments to the bid and to the ask of one side: only a price that
\* is present and parses is written
SetBid(q, is_up, best_bid) ==
    IF best_bid = NoReturn \/ ~UnwrapOr(best_bid, Unparsable).parses
    THEN q
    ELSE IF is_up
         THEN [q EXCEPT !.yes_bid = UnwrapOr(best_bid, Unparsable).price]
         ELSE [q EXCEPT !.no_bid = UnwrapOr(best_bid, Unparsable).price]

SetAsk(q, is_up, best_ask) ==
    IF best_ask = NoReturn \/ ~UnwrapOr(best_ask, Unparsable).parses
    THEN q
    ELSE IF is_up
         THEN [q EXCEPT !.yes_ask = UnwrapOr(best_ask, Unparsable).price]
         ELSE [q EXCEPT !.no_ask = UnwrapOr(best_ask, Unparsable).price]

\* process_price_changes: the entries of other assets are skipped; the first
\* entry of a tracked token sets last_update_ms and the prices it holds, and
\* the function returns
RECURSIVE PriceChangesFrom(_, _, _, _)
PriceChangesFrom(q, market, changes, i) ==
    IF i > Len(changes)
    THEN q
    ELSE LET change == changes[i]
             is_up == change.asset_id = market.up_token_id
             is_down == change.asset_id = market.down_token_id
         IN  IF ~is_up /\ ~is_down
             THEN PriceChangesFrom(q, market, changes, i + 1)
             ELSE SetAsk(SetBid([q EXCEPT !.age = 0], is_up, change.best_bid),
                         is_up, change.best_ask)

ProcessPriceChanges(q, market, changes) == PriceChangesFrom(q, market, changes, 1)

\* bids.last() and asks.first()
LastOf(levels) ==
    IF levels = NoReturn \/ UnwrapOr(levels, <<>>) = <<>>
    THEN NoReturn
    ELSE Some(UnwrapOr(levels, <<>>)[Len(UnwrapOr(levels, <<>>))])

FirstOf(levels) ==
    IF levels = NoReturn \/ UnwrapOr(levels, <<>>) = <<>>
    THEN NoReturn
    ELSE Some(UnwrapOr(levels, <<>>)[1])

\* process_book_message: a message without asset id or of another asset is
\* dropped; else last_update_ms is set, the best bid is the last bid and the
\* best ask the first ask
ProcessBookMessage(q, market, msg) ==
    IF msg.asset_id = NoReturn
    THEN q
    ELSE LET is_up == msg.asset_id = Some(market.up_token_id)
             is_down == msg.asset_id = Some(market.down_token_id)
         IN  IF ~is_up /\ ~is_down
             THEN q
             ELSE SetAsk(SetBid([q EXCEPT !.age = 0], is_up, LastOf(msg.bids)),
                         is_up, FirstOf(msg.asks))

RECURSIVE BooksFrom(_, _, _, _)
BooksFrom(q, market, books, i) ==
    IF i > Len(books)
    THEN q
    ELSE BooksFrom(ProcessBookMessage(q, market, books[i]), market, books, i + 1)

\* handle_message: a price change message, an array of book messages, one
\* book message, or a text that is none of them
HandleMessage(q, market, text) ==
    CASE text.kind = "price_changes" -> ProcessPriceChanges(q, market, text.price_changes)
      [] text.kind = "books" -> BooksFrom(q, market, text.books, 1)
      [] text.kind = "book" -> ProcessBookMessage(q, market, text.book)
      [] OTHER -> q

\* run_connection, one turn of the loop on a message of the stream: when the
\* check is due the catalog is asked first, and a market with another
\* condition id replaces the descriptor and ends the session, the message
\* is dropped; else the message is handled
StreamMessage(msg) ==
    /\ poly_pc = "stream"
    /\ LET check == IF check_due
                    THEN CheckForNewMarket(catalog, active_market.condition_id)
                    ELSE Ok(NoReturn)
       IN  IF check.kind = "Ok" /\ check.value # NoReturn
           THEN /\ active_market' = ActiveMarket(UnwrapOr(check.value, NoMarket))
                /\ market_op' = "replace"
                /\ poly_pc' = "connect"
                /\ assets_ids' = NoAssets
                /\ UNCHANGED quote_state
           ELSE /\ UNCHANGED active_market
                /\ market_op' = IF check.kind = "Err" THEN "check_failed" ELSE market_op
                /\ CASE msg.kind = "text" ->
                            /\ quote_state' = HandleMessage(quote_state, active_market, msg.text)
                            /\ UNCHANGED <<poly_pc, assets_ids>>
                     [] msg.kind \in {"close", "error"} ->
                            /\ poly_pc' = "connect"
                            /\ assets_ids' = NoAssets
                            /\ UNCHANGED quote_state
                     [] OTHER -> UNCHANGED <<poly_pc, assets_ids, quote_state>>
    /\ check_due' = FALSE
    /\ UNCHANGED <<tick, scrapers, catalog>>

\* the stream ends: run_connection returns Ok
StreamEnds ==
    /\ poly_pc = "stream"
    /\ poly_pc' = "connect"
    /\ assets_ids' = NoAssets
    /\ UNCHANGED <<active_market, tick, scrapers, market_op, catalog, check_due,
                   quote_state>>

\* the snapshot task, at a tick: it copies the descriptor
TickRead ==
    /\ tick.pc = "wait"
    /\ active_market.condition_id # ""
    /\ tick' = [tick EXCEPT !.pc = "changed", !.active_market = active_market]
    /\ UNCHANGED <<active_market, poly_pc, scrapers, market_op, catalog,
                   assets_ids, check_due, quote_state>>

\* the copy has another condition id than the last one seen: the target price
\* is cleared and the fetch of the price to beat is spawned
TickChanged ==
    /\ tick.pc = "changed"
    /\ IF tick.active_market.condition_id # tick.last_condition_id
       THEN /\ tick' = [tick EXCEPT !.pc = "fallback",
                                    !.last_condition_id = tick.active_market.condition_id]
            /\ active_market' = [active_market EXCEPT !.target_price = NoTarget]
            /\ market_op' = "clear"
            /\ scrapers' = Min(scrapers + 1, MaxScrapers)
       ELSE /\ tick' = [tick EXCEPT !.pc = "fallback"]
            /\ UNCHANGED <<active_market, market_op, scrapers>>
    /\ UNCHANGED <<poly_pc, catalog, assets_ids, check_due, quote_state>>

\* set_target_price: only a target that is not set is set
SetTargetPrice(price) ==
    IF active_market.target_price = NoTarget
    THEN active_market' = [active_market EXCEPT !.target_price = price]
    ELSE UNCHANGED active_market

\* the copy has no target price: set_target_price with the price of the
\* reference feed, if there is one and the window has started
TickFallback(price, window_started) ==
    /\ tick.pc = "fallback"
    /\ tick' = [tick EXCEPT !.pc = "wait", !.window_started = window_started]
    /\ IF tick.active_market.target_price = NoTarget /\ price # NoTarget /\ window_started
       THEN /\ SetTargetPrice(price)
            /\ market_op' = "set"
       ELSE UNCHANGED <<active_market, market_op>>
    /\ UNCHANGED <<poly_pc, scrapers, catalog, assets_ids, check_due, quote_state>>

\* a fetch of the price to beat ends: force_set_target_price if it found one
ScraperDone(price) ==
    /\ scrapers > 0
    /\ scrapers' = scrapers - 1
    /\ IF price # NoTarget
       THEN /\ active_market' = [active_market EXCEPT !.target_price = price]
            /\ market_op' = "force_set"
       ELSE UNCHANGED <<active_market, market_op>>
    /\ UNCHANGED <<poly_pc, tick, catalog, assets_ids, check_due, quote_state>>

\* the messages of the stream the maintainer meets
MarketMessages ==
    {Text(PriceChangeText(<<PriceChange("c1-up", Some(PriceString(480)), NoReturn)>>)),
     Text(BookText(BookMessage(Some("c2-down"), NoReturn, Some(<<PriceString(500)>>)))),
     Ping, Close}

Rest == UNCHANGED <<svc_vars, ex_vars, state, order, session, signal_vars, scraper_vars, lock_vars, caller_vars, fetch_vars>>

MarketNext ==
    \/ \E cat \in MarketCatalogs : CatalogChanges(cat) /\ Rest
    \/ StartRefresh /\ Rest
    \/ StartFails /\ Rest
    \/ ConnectFails /\ Rest
    \/ Subscribed /\ Rest
    \/ ReconnectRefresh /\ Rest
    \/ ReconnectRefreshFails /\ Rest
    \/ MarketCheckInterval /\ Rest
    \/ \E msg \in MarketMessages : StreamMessage(msg) /\ Rest
    \/ StreamEnds /\ Rest
    \/ TickRead /\ Rest
    \/ TickChanged /\ Rest
    \/ \E price \in ChainlinkPrices, window_started \in BOOLEAN :
           TickFallback(price, window_started) /\ Rest
    \/ \E price \in ScrapedPrices : ScraperDone(price) /\ Rest

MarketSpec == MarketInit /\ [][MarketNext]_vars

----------------------------------------------------------------------------
(* Vocabulary of the properties of the trade gate *)

\* the step of place_order that runs check_risk and ends or submits the order
RiskStep == order.pc = "check" /\ order'.pc # "check"

\* sizes and limit prices check_risk is asked about, beside those of the calls
RiskSizes == {MaxSize, MaxSize + 1}

RiskLimits == {500, 962}

\* nothing but the kill switch stands in the way of a live order for side
Clear(side) ==
    /\ ~session.dry_run
    /\ session.credentials
    /\ active_market # NoMarket
    /\ CheckRisk([state EXCEPT !.kill_switch_active = FALSE], quote_state, side,
                 order.size, order.limit_price) = "allowed"

----------------------------------------------------------------------------
(* C11: whenever the kill switch is on, check_risk rejects, whatever the      *)
(* side, the size, the limit price and the quotes are, and a place_order      *)
(* call that meets the kill switch ends with an error, the risk result being  *)
(* the kill-switch rejection, without an order request being sent.            *)
C11_KillSwitchRejects ==
    /\ [](state.kill_switch_active =>
            \A side \in Sides, size \in RiskSizes, limit_price \in RiskLimits :
                CheckRisk(state, quote_state, side, size, limit_price) = "kill")
    /\ [][RiskStep /\ state.kill_switch_active =>
            /\ order'.pc = "done"
            /\ order'.risk = "kill"
            /\ order'.ret.kind = "Err"
            /\ order'.sent = <<>>]_vars

\* a live order that only the kill switch stopped
C11_Witness ==
    /\ order.pc = "done"
    /\ order.risk = "kill"
    /\ state.kill_switch_active
    /\ Clear(order.side)
    /\ order.sent = <<>>
    /\ order.ret = Err("kill")

----------------------------------------------------------------------------
\* the checks of the risk policy, in its order
Checks == <<"kill", "size", "stale", "price", "spread">>

\* the check c fails for an order of size at limit_price on side
Fails(c, side, size, limit_price) ==
    LET bid == IF side = "YES" THEN quote_state.yes_bid ELSE quote_state.no_bid
        ask == IF side = "YES" THEN quote_state.yes_ask ELSE quote_state.no_ask
        cap == IF side = "YES" THEN state.max_price_yes ELSE state.max_price_no
    IN  CASE c = "kill" -> state.kill_switch_active
          [] c = "size" -> ~(size <= MaxSize)
          [] c = "stale" -> \/ quote_state.age = Never
                            \/ ~(quote_state.age <= StaleQuoteThresholdMs)
          [] c = "price" -> ~(limit_price <= cap)
          [] c = "spread" -> /\ bid # NoQuote
                             /\ ask # NoQuote
                             /\ ~(ask - bid <= MaxSpread)

\* the first check of the policy that fails, "allowed" when none fails
FirstFailure(side, size, limit_price) ==
    LET failing == {i \in 1..Len(Checks) : Fails(Checks[i], side, size, limit_price)}
    IN  IF failing = {} THEN "allowed"
        ELSE Checks[CHOOSE i \in failing : \A j \in failing : i <= j]

(* C12: check_risk reports the first check that fails in the order kill       *)
(* switch, size, staleness, limit price against the side's cap, spread (the   *)
(* spread only when the bid and the ask of the side are both known), for the  *)
(* orders of place_order and for any side, size and limit price; a quote      *)
(* older than the threshold or never updated is rejected for staleness when   *)
(* the kill switch is off and the size is within max_size.                    *)
C12_FirstFailureWins ==
    /\ [](\A side \in Sides, size \in RiskSizes, limit_price \in RiskLimits :
            /\ CheckRisk(state, quote_state, side, size, limit_price)
                 = FirstFailure(side, size, limit_price)
            /\ (/\ ~state.kill_switch_active
                /\ size <= MaxSize
                /\ quote_state.age \in {Never, StaleQuoteThresholdMs + 1})
               => CheckRisk(state, quote_state, side, size, limit_price) = "stale")
    /\ [][RiskStep =>
            order'.risk = FirstFailure(order.side, order.size, order.limit_price)]_vars

\* an order on stale quotes with too wide a spread is rejected for staleness
C12_Witness ==
    /\ order.pc = "done"
    /\ order.side = "YES"
    /\ order.risk = "stale"
    /\ ~state.kill_switch_active
    /\ order.size <= MaxSize
    /\ quote_state.age = StaleQuoteThresholdMs + 1
    /\ quote_state.yes_bid # NoQuote
    /\ quote_state.yes_ask - quote_state.yes_bid > MaxSpread

----------------------------------------------------------------------------
\* the cap and the best ask of a side
CapOf(side) == IF side = "YES" THEN state.max_price_yes ELSE state.max_price_no

AskOf(side) == IF side = "YES" THEN quote_state.yes_ask ELSE quote_state.no_ask

\* place_order has just computed its limit price
PriceStep == order.pc = "idle" /\ order'.pc = "check"

\* the sent request's price is the cent nearest to p
NearestCent(price, p) ==
    /\ price % 10 = 0
    /\ 2 * (price - p) < 10
    /\ 2 * (p - price) < 10

----------------------------------------------------------------------------
(* C14: in dry-run mode no request is ever sent to the order API; a           *)
(* place_order that passes the risk check ends at once, having handed to the  *)
(* trade log one event of mode dry_run with status dry_run_success, without   *)
(* calling the order client.                                                  *)
C14_DryRunSendsNothing ==
    /\ [](session.dry_run => order.sent = <<>> /\ order.pc # "await")
    /\ [][RiskStep /\ session.dry_run /\ order'.risk = "allowed" =>
            /\ order'.pc = "done"
            /\ order'.sent = <<>>
            /\ Len(order'.logged) = 1
            /\ order'.logged[1].mode = "dry_run"
            /\ order'.logged[1].api_status = "dry_run_success"
            /\ order'.logged[1].risk_reject_reason = "none"]_vars

\* a dry run of an order that a live session would have sent
C14_Witness ==
    /\ order.pc = "done"
    /\ session.dry_run
    /\ session.credentials
    /\ active_market # NoMarket
    /\ order.risk = "allowed"
    /\ order.sent = <<>>
    /\ order.logged[1].api_status = "dry_run_success"
    /\ order.ret = OkEvent

----------------------------------------------------------------------------
\* the risk check of this step rejects the order
RejectStep == RiskStep /\ order'.risk # "allowed"

\* what a rejected call does beside returning: no request, one trade event
\* with the reason, one action-log entry, the end of the call, and the
\* trading state as it was
RejectedQuietly ==
    /\ order'.sent = <<>>
    /\ Len(order'.logged) = 1
    /\ order'.logged[1].risk_reject_reason = order'.risk
    /\ order'.logged[1].api_status = "none"
    /\ order'.actions = 1
    /\ order'.pc = "done"
    /\ state' = state

----------------------------------------------------------------------------
\* an order request is sent in this step
SendStep == order'.sent # order.sent /\ order'.sent # <<>>

(* C16: every order sent to the order API is a BUY of type GTC for the        *)
(* active market's up token when the side is YES and for its down token when  *)
(* the side is NO; no request has another side, and a place_order call sends  *)
(* one request at most.                                                       *)
C16_OnlyBuysOfTheSidesToken ==
    /\ [](/\ Len(order.sent) <= 1
          /\ \A i \in 1..Len(order.sent) :
                /\ order.sent[i].side = "BUY"
                /\ order.sent[i].order_type = "GTC")
    /\ [][SendStep =>
            /\ Len(order.sent) = 0
            /\ order'.side = "YES" => order'.sent[1].token_id = active_market.up_token_id
            /\ order'.side = "NO" => order'.sent[1].token_id = active_market.down_token_id
            /\ order'.sent[1].token_id # ""]_vars

\* an order for NO was sent and answered
C16_Witness ==
    /\ order.pc = "done"
    /\ order.side = "NO"
    /\ Len(order.sent) = 1
    /\ order.sent[1].side = "BUY"
    /\ order.sent[1].token_id = active_market.down_token_id
    /\ order.sent[1].token_id # active_market.up_token_id

----------------------------------------------------------------------------
(* C17: when the GET /api-keys step of the authentication diagnostic has      *)
(* failed at start-up of a live session (check_auth returned its error), no   *)
(* place_order of the session sends an order to the order API.                *)
C17_AuthFailureDisablesLive ==
    [](~session.dry_run /\ session.auth = "failed" => order.sent = <<>>)

----------------------------------------------------------------------------
(* Vocabulary of the properties of the signal evaluator: the rows of the      *)
(* decision table, for the inputs the signal state records.                   *)

\* r1 > tau1 and s > sigma
RowUp ==
    /\ signal_state.binance_ret_1s > signal_config.binance_return_threshold_1s
    /\ signal_state.poly_lag_ms > signal_config.poly_lag_threshold_ms

\* r1 < -tau1 and s > sigma
RowDown ==
    /\ signal_state.binance_ret_1s < 0 - signal_config.binance_return_threshold_1s
    /\ signal_state.poly_lag_ms > signal_config.poly_lag_threshold_ms

\* the return of 3 s confirms the side of the first two rows
RowConfirm ==
    \/ RowUp /\ signal_state.binance_ret_3s > signal_config.binance_return_threshold_3s
    \/ RowDown /\ signal_state.binance_ret_3s < 0 - signal_config.binance_return_threshold_3s

TableScore == (IF RowUp \/ RowDown THEN 5 ELSE 0) + (IF RowConfirm THEN 3 ELSE 0)

(* C18: the signal state follows the decision table: with a score of at       *)
(* least C_min the side is up (YES) iff r1 > tau1 and s > sigma, down (NO)    *)
(* iff r1 < -tau1 and s > sigma, and the confidence is 0.5 for the side plus  *)
(* 0.3 iff the 3 s return confirms it; with a score below C_min the side is   *)
(* none and the confidence 0.                                                 *)
C18_DecisionTable ==
    IF TableScore < signal_config.min_confidence
    THEN /\ signal_state.suggested_side = "none"
         /\ signal_state.confidence = 0
    ELSE /\ signal_state.suggested_side = "YES" <=> RowUp
         /\ signal_state.suggested_side = "NO" <=> RowDown
         /\ signal_state.suggested_side = "none" <=> ~RowUp /\ ~RowDown
         /\ signal_state.confidence = TableScore

\* the aligned move: r1 = 0.0015, r3 = 0.0025, s = 700 ms, C_min = 0.5
C18_Witness ==
    /\ signal_config.binance_return_threshold_1s = 10
    /\ signal_config.min_confidence = 5
    /\ signal_state.binance_ret_1s = 15
    /\ signal_state.binance_ret_3s = 25
    /\ signal_state.poly_lag_ms = 700
    /\ signal_state.suggested_side = "YES"
    /\ signal_state.confidence = 8

(* C19: in every signal state, the first included, the confidence is at       *)
(* least C_min when a side is suggested and 0 when none is; a signal event    *)
(* is broadcast only by a recomputation that suggests a side, and it carries  *)
(* that state.                                                                *)
C19_ConfidenceAndBroadcast ==
    /\ signal_state.suggested_side # "none" =>
           signal_state.confidence >= signal_config.min_confidence
    /\ signal_state.suggested_side = "none" => signal_state.confidence = 0
    /\ signal_tx # {} =>
           /\ signal_state.suggested_side # "none"
           /\ signal_tx = {signal_state}

\* a down move on lagging quotes, unconfirmed: silent under C_min = 0.6
C19_Witness ==
    /\ signal_config.min_confidence = 6
    /\ signal_state.binance_ret_1s = -15
    /\ signal_state.binance_ret_3s = 0
    /\ signal_state.poly_lag_ms = 700
    /\ signal_state.suggested_side = "none"
    /\ signal_state.confidence = 0
    /\ signal_tx = {}

----------------------------------------------------------------------------
(* C20: after a replacement of the active market the target price is unset;   *)
(* a target price that is set keeps its value and is not cleared as long as   *)
(* the descriptor is not replaced by a market with another condition id,      *)
(* unless the step is the scraper's force-set.                                *)
C20_TargetSetOncePerWindow ==
    /\ [][active_market'.condition_id # active_market.condition_id =>
            active_market'.target_price = NoTarget]_vars
    /\ [][(/\ active_market.target_price # NoTarget
           /\ active_market'.condition_id = active_market.condition_id
           /\ ~(market_op' = "force_set" /\ scrapers' # scrapers))
          => active_market'.target_price = active_market.target_price]_vars

----------------------------------------------------------------------------
\* the snapshot task writes the reference feed's price as the target
FallbackStep ==
    /\ market_op' = "set"
    /\ tick.pc = "fallback"
    /\ active_market'.target_price # active_market.target_price

\* a fetch of the price to beat ends with a price
ScrapedStep == market_op' = "force_set" /\ scrapers' = scrapers - 1

(* C21: the reference feed's price is written as the target only when the    *)
(* fetch of the price to beat from the event page has ended without one (no   *)
(* fetch is still running) and the window has started; when a fetch ends      *)
(* with a price, the target is that price.                                    *)
C21_ScrapeBeforeFallback ==
    /\ [][FallbackStep => scrapers = 0 /\ tick'.window_started]_vars
    /\ [][ScrapedStep => active_market'.target_price \in ScrapedPrices \ {NoTarget}]_vars

----------------------------------------------------------------------------
\* a turn of the stream loop in which the market check is made
CheckStep == poly_pc = "stream" /\ check_due /\ ~check_due'

\* the two token ids of the descriptor
TokensOf(market) == {market.up_token_id, market.down_token_id}

(* C22: when the market check finds a market with another condition id, the   *)
(* descriptor becomes that market's in every field, the session ends and      *)
(* the message in hand is not handled; the quotes change only on a message    *)
(* of a session that is subscribed to the two tokens of the descriptor, and   *)
(* every open session is subscribed to exactly these two tokens.              *)
C22_ReplacedWholesale ==
    /\ [][\A c \in Conditions :
            (/\ CheckStep
             /\ CheckForNewMarket(catalog, active_market.condition_id).kind = "Ok"
             /\ GetCurrentBtc15mMarket(catalog).value.condition_id = c
             /\ c # active_market.condition_id)
            => /\ active_market' = Market(c)
               /\ poly_pc' = "connect"
               /\ assets_ids' = NoAssets
               /\ quote_state' = quote_state]_vars
    /\ [][quote_state' # quote_state =>
            /\ poly_pc = "stream"
            /\ assets_ids = TokensOf(active_market)
            /\ active_market' = active_market]_vars
    /\ [](poly_pc = "stream" => assets_ids = TokensOf(active_market))

C22_Witness ==
    /\ market_op = "replace"
    /\ active_market = Market("c2")
    /\ poly_pc = "stream"
    /\ assets_ids = {"c2-up", "c2-down"}
    /\ quote_state.no_ask = 500

----------------------------------------------------------------------------
(* The maintainer under fair scheduling: the start task and the snapshot      *)
(* task take their steps (tokio runs a task that is ready), a connection      *)
(* attempt ends, a spawned fetch ends and time passes.  Nothing makes the     *)
(* stream deliver a message or end, nothing makes the catalog change.         *)
MarketFairness ==
    /\ WF_vars(StartRefresh /\ Rest)
    /\ WF_vars(StartFails /\ Rest)
    /\ WF_vars((Subscribed \/ ConnectFails) /\ Rest)
    /\ WF_vars(ReconnectRefresh /\ Rest)
    /\ WF_vars(ReconnectRefreshFails /\ Rest)
    /\ WF_vars(MarketCheckInterval /\ Rest)
    /\ WF_vars(TickRead /\ Rest)
    /\ WF_vars(TickChanged /\ Rest)
    /\ WF_vars((\E price \in ChainlinkPrices, window_started \in BOOLEAN :
                    TickFallback(price, window_started)) /\ Rest)
    /\ WF_vars((\E price \in ScrapedPrices : ScraperDone(price)) /\ Rest)

MarketFairSpec == MarketInit /\ [][MarketNext]_vars /\ MarketFairness

\* the catalog's discovery answers with the market of condition id c
Reports(c) ==
    /\ GetCurrentBtc15mMarket(catalog).kind = "Ok"
    /\ GetCurrentBtc15mMarket(catalog).value.condition_id = c

(* C23: while the maintainer runs, a market with a new condition id that the  *)
(* catalog reports becomes the active market with no message of the stream    *)
(* needed: in an open session in which the 60 s of the check have passed,     *)
(* the descriptor is eventually replaced, unless the catalog stops reporting  *)
(* the market or the session ends.                                            *)
C23_EventuallyReplaced ==
    \A c \in Conditions :
        (poly_pc = "stream" /\ check_due /\ Reports(c) /\ active_market.condition_id # c)
            ~> (active_market.condition_id = c \/ ~Reports(c) \/ poly_pc # "stream")

----------------------------------------------------------------------------
(* The discovery alone: start's first refresh, for every catalog made of the  *)
(* answers below: no market, a failed request, an open market, a closed       *)
(* one, one that does not accept orders or does not say so, and open markets  *)
(* whose token ids are missing or are fewer than two.                         *)
Answers ==
    {Missing, FetchError, Open("c1"), Open("c2"),
     Listed("c1", Some(TRUE), TRUE, Some(TokenIds("c1"))),
     Listed("c2", Some(FALSE), FALSE, Some(TokenIds("c2"))),
     Listed("c1", NoReturn, FALSE, Some(TokenIds("c1"))),
     Listed("c2", Some(TRUE), FALSE, Some(<<"c2-up">>)),
     Listed("c1", Some(TRUE), FALSE, NoReturn)}

DiscoveryInit ==
    /\ Init
    /\ ExchangeIdle
    /\ ScraperIdle
    /\ CallerIdle
    /\ FetchIdle
    /\ LockIdle
    /\ TradeIdle
    /\ SignalIdle
    /\ quote_state = NewQuoteState
    /\ active_market = NoMarket
    /\ poly_pc = "start"
    /\ tick = NewTick
    /\ scrapers = 0
    /\ market_op = "none"
    /\ catalog \in {Catalog(a, b, c) : a \in Answers, b \in Answers, c \in Answers}
    /\ assets_ids = NoAssets
    /\ check_due = FALSE

DiscoveryNext ==
    \/ StartRefresh /\ Rest
    \/ StartFails /\ Rest

DiscoverySpec == DiscoveryInit /\ [][DiscoveryNext]_vars

\* a market that exists, accepts orders and is not closed
Qualifies(answer) ==
    /\ answer.kind = "market"
    /\ answer.accepting_orders = {TRUE}
    /\ answer.closed = FALSE

\* the windows in the order current, next, previous, and the first of them
\* whose market qualifies
Order == [current |-> 1, next |-> 2, previous |-> 3]

NoneQualifies == \A w \in DOMAIN Order : ~Qualifies(catalog[w])

FirstQualifying ==
    catalog[CHOOSE w \in DOMAIN Order :
                /\ Qualifies(catalog[w])
                /\ \A v \in DOMAIN Order : Order[v] < Order[w] => ~Qualifies(catalog[v])]

\* its token ids are there, two of them at least
TokensParse(answer) ==
    \E token_ids \in answer.clob_token_ids : Len(token_ids) >= 2

\* start's first refresh has returned
Discovered == poly_pc = "start" /\ poly_pc' # "start"

\* C24 as stated: the discovery returns the first market in the order
\* current, next, previous that qualifies, and fails only when none does
C24_FirstQualifyingOrNone ==
    [][Discovered =>
          IF NoneQualifies
          THEN poly_pc' = "stopped" /\ active_market' = active_market
          ELSE /\ poly_pc' = "connect"
               /\ active_market'.condition_id = FirstQualifying.condition_id]_vars

(* C24: the discovery takes the first market in the order current, next,      *)
(* previous that exists, accepts orders and is not closed, and returns it     *)
(* when its token ids parse; it fails when none qualifies and also when the   *)
(* token ids of that first one are missing or fewer than two, without trying  *)
(* the windows after it.                                                      *)
C24_FirstQualifyingParsed ==
    [][Discovered =>
          IF NoneQualifies \/ ~TokensParse(FirstQualifying)
          THEN poly_pc' = "stopped" /\ active_market' = active_market
          ELSE /\ poly_pc' = "connect"
               /\ active_market' = Market(FirstQualifying.condition_id)]_vars

C24_Witness ==
    /\ poly_pc = "connect"
    /\ catalog.current = Listed("c2", Some(FALSE), FALSE, Some(TokenIds("c2")))
    /\ catalog.next = FetchError
    /\ catalog.previous = Open("c1")
    /\ active_market = Market("c1")

----------------------------------------------------------------------------
\* the discovery fails on the catalog as it is
DiscoveryFails == NoneQualifies \/ ~TokensParse(FirstQualifying)

\* the refresh after an error of run_connection has returned
ReconnectRefreshStep == poly_pc = "refresh" /\ poly_pc' # "refresh"

(* C25: when the discovery fails in the refresh on reconnect or in the        *)
(* periodic check, every field of the descriptor keeps its value, the target  *)
(* price included, and start does not return: it goes on to connect, or the   *)
(* session stays open unless the message in hand closes it.                   *)
C25_FailedRefreshKeepsMarket ==
    /\ [][(ReconnectRefreshStep /\ DiscoveryFails) =>
            /\ active_market' = active_market
            /\ poly_pc' = "connect"]_vars
    /\ [][(CheckStep /\ DiscoveryFails) =>
            /\ active_market' = active_market
            /\ poly_pc' \in {"stream", "connect"}
            /\ assets_ids' \in {assets_ids, NoAssets}]_vars

C25_Witness ==
    /\ market_op = "refresh_failed"
    /\ poly_pc = "connect"
    /\ active_market.condition_id = "c1"
    /\ active_market.target_price = 100

C25_WitnessCheck ==
    /\ market_op = "check_failed"
    /\ poly_pc = "stream"
    /\ active_market.condition_id = "c2"
    /\ active_market.target_price = 102

----------------------------------------------------------------------------
\* start is past its first refresh and has not returned: it connects, reads
\* the stream or refreshes after an error
PastFirstRefresh == poly_pc \in {"connect", "stream", "refresh"}

----------------------------------------------------------------------------
(* The quotes alone: one open session on the market c1, the stream's          *)
(* messages and the passing of time.                                          *)
UpBook == BookMessage(Some("c1-up"), Some(<<PriceString(300), PriceString(480)>>),
                      Some(<<PriceString(500), PriceString(962)>>))

DownBook == BookMessage(Some("c1-down"), Some(<<PriceString(480)>>), Some(<<PriceString(500)>>))

QuoteMessages ==
    {Text(PriceChangeText(<<PriceChange("c1-up", Some(PriceString(480)), NoReturn)>>)),
     Text(PriceChangeText(<<PriceChange("c1-up", Some(PriceString(300)), Some(PriceString(962))),
                            PriceChange("c1-down", Some(PriceString(300)), Some(PriceString(500)))>>)),
     Text(PriceChangeText(<<PriceChange("c2-up", Some(PriceString(480)), NoReturn),
                            PriceChange("c1-down", Some(Unparsable), Some(PriceString(962)))>>)),
     Text(PriceChangeText(<<PriceChange("c2-down", NoReturn, Some(PriceString(500)))>>)),
     Text(PriceChangeText(<<PriceChange("c1-down", Some(PriceString(480)), NoReturn)>>)),
     Text(PriceChangeText(<<PriceChange("c1-up", NoReturn, Some(PriceString(500)))>>)),
     Text(PriceChangeText(<<PriceChange("c1-down", Some(PriceString(300)), NoReturn)>>)),
     Text(BookText(UpBook)),
     Text(BooksText(<<UpBook, DownBook>>)),
     Text(BookText(BookMessage(Some("c2-up"), Some(<<PriceString(300)>>), NoReturn))),
     Text(BookText(BookMessage(NoReturn, Some(<<PriceString(300)>>), NoReturn))),
     Text(BookText(BookMessage(Some("c1-down"), Some(<<>>), NoReturn))),
     Text(OtherText),
     Ping}

QuoteInit ==
    /\ Init
    /\ ExchangeIdle
    /\ ScraperIdle
    /\ CallerIdle
    /\ FetchIdle
    /\ LockIdle
    /\ TradeIdle
    /\ SignalIdle
    /\ quote_state = NewQuoteState
    /\ active_market = Market("c1")
    /\ poly_pc = "stream"
    /\ tick = NewTick
    /\ scrapers = 0
    /\ market_op = "refresh"
    /\ catalog = Catalog(Open("c1"), Missing, Missing)
    /\ assets_ids = {"c1-up", "c1-down"}
    /\ check_due = FALSE

QuoteNext ==
    \/ \E msg \in QuoteMessages : StreamMessage(msg) /\ Rest
    \/ \E a \in QuoteAges : QuoteAge(a) /\ Idle

QuoteSpec == QuoteInit /\ [][QuoteNext]_vars

\* what the entries and the objects of a text would do if each one of a
\* tracked token set last_update_ms and its token's prices, and the others
\* were skipped
RECURSIVE EachEntryFrom(_, _, _, _)
EachEntryFrom(q, market, entries, i) ==
    IF i > Len(entries)
    THEN q
    ELSE LET asset_id == IF DOMAIN entries[i] = DOMAIN UpBook
                         THEN entries[i].asset_id
                         ELSE Some(entries[i].asset_id)
             is_up == asset_id = Some(market.up_token_id)
             bid == IF DOMAIN entries[i] = DOMAIN UpBook
                    THEN LastOf(entries[i].bids) ELSE entries[i].best_bid
             ask == IF DOMAIN entries[i] = DOMAIN UpBook
                    THEN FirstOf(entries[i].asks) ELSE entries[i].best_ask
         IN  IF asset_id \in {Some(market.up_token_id), Some(market.down_token_id)}
             THEN EachEntryFrom(SetAsk(SetBid([q EXCEPT !.age = 0], is_up, bid), is_up, ask),
                                market, entries, i + 1)
             ELSE EachEntryFrom(q, market, entries, i + 1)

EntriesOf(text) ==
    CASE text.kind = "price_changes" -> text.price_changes
      [] text.kind = "books" -> text.books
      [] text.kind = "book" -> <<text.book>>
      [] OTHER -> <<>>

(* C27: a text of the stream is handled as if every book object and every     *)
(* price_changes entry of a tracked token set last_update_ms and that         *)
(* token's best bid (book: the last bid) and best ask (book: the first ask),  *)
(* and every object or entry of another asset changed nothing.                *)
C27_EveryTrackedEntryUpdates ==
    [][\A msg \in QuoteMessages :
          (StreamMessage(msg) /\ msg.kind = "text") =>
              quote_state' = EachEntryFrom(quote_state, active_market, EntriesOf(msg.text), 1)]_vars

----------------------------------------------------------------------------
(* HistorySpec: the spot book service on diffs that arrive at different       *)
(* times, so that the mid history holds several entries: the snapshot has     *)
(* one bid and one ask, a diff adds or removes a bid or removes the ask, and  *)
(* the time between two accepted diffs is nothing, half the retention window  *)
(* or more than the window.                                                   *)

\* the entries the history holds at most
MaxHistory == 3

HistorySnapshots ==
    {[last_update_id |-> 0, bids |-> <<Level(2, 1)>>, asks |-> <<Level(6, 1)>>]}

HistoryLevels ==
    {<< <<Level(4, 1)>>, <<>> >>, << <<Level(4, 0)>>, <<>> >>, << <<>>, <<Level(6, 0)>> >>}

HistoryDiffs ==
    {[first_update_id |-> i, final_update_id |-> i, prev_final_update_id |-> NoPu,
      bids |-> ls[1], asks |-> ls[2]] : i \in LevelIds, ls \in HistoryLevels}

HistoryElapsed == {0, RetentionMs \div 2, RetentionMs + 1}

HistoryNext ==
    \/ Start /\ NoExchange
    \/ Stop /\ NoExchange
    \/ LoopTop /\ NoExchange
    \/ Connect /\ NoExchange
    \/ FetchFail /\ NoExchange
    \/ \E s \in HistorySnapshots : FetchSnapshot(s) /\ NoExchange
    \/ Wake /\ NoExchange
    \/ \E d \in HistoryDiffs, dt \in HistoryElapsed :
           RecvDiff(d, dt) /\ Len(mid_history') <= MaxHistory /\ NoExchange
    \/ \E kind \in MessageKinds : RecvOther(kind) /\ NoExchange

HistorySpec == FreeInit /\ [][HistoryNext]_vars

\* the diff d, received dt after the last accepted one, is accepted:
\* apply_diff returns Ok(true) and record_mid is called
AcceptedStep(d, dt) ==
    /\ RecvDiff(d, dt)
    /\ running
    /\ ~BeforeSnapshot(d, snapshot)
    /\ OkTrue(ApplyDiff(book, d).res)

\* the history h2 is h1 less k entries at its head, all older than the
\* retention window, plus the entry e at its tail
AppendedTo(h1, h2, e) ==
    \E k \in 0..Len(h1) :
        /\ h2 = SubSeq(h1, k + 1, Len(h1)) \o <<e>>
        /\ \A i \in 1..k : h1[i].age > RetentionMs

\* timestamps non-decreasing from head to tail: ages non-increasing
Ordered(h) == \A i, j \in 1..Len(h) : i < j => h[i].age >= h[j].age

\* no entry more than the retention window older than the newest, of age 0
Retained(h) == \A i \in 1..Len(h) : h[i].age <= RetentionMs

\* C28 as stated: every record_mid after an accepted diff appends one entry
C28_AlwaysAppendsOne ==
    [][\A d \in HistoryDiffs, dt \in HistoryElapsed :
          AcceptedStep(d, dt) =>
              /\ mid_history' # <<>>
              /\ AppendedTo(Elapse(mid_history, dt), mid_history',
                            mid_history'[Len(mid_history')])
              /\ mid_history'[Len(mid_history')].age = 0
              /\ Ordered(mid_history')
              /\ Retained(mid_history')]_vars

(* C28: after a record_mid that follows an accepted diff and finds a mid      *)
(* (the book has a bid and an ask), exactly one entry (now, mid) has been     *)
(* appended, only entries older than 60 s have left the head, the timestamps  *)
(* are non-decreasing from head to tail and no entry is more than 60 s older  *)
(* than the new one; when the book has no mid, the history is as it was.      *)
C28_AppendsOneWhenMid ==
    [][\A d \in HistoryDiffs, dt \in HistoryElapsed :
          AcceptedStep(d, dt) =>
              IF HasMid(book')
              THEN /\ AppendedTo(Elapse(mid_history, dt), mid_history',
                                 [age |-> 0, mid |-> Mid(book')])
                   /\ Ordered(mid_history')
                   /\ Retained(mid_history')
              ELSE mid_history' = Elapse(mid_history, dt)]_vars

C28_Witness ==
    /\ result = "applied"
    /\ Len(mid_history) = 2
    /\ mid_history[1].age = RetentionMs
    /\ mid_history[2].age = 0
    /\ mid_history[1].mid # mid_history[2].mid

----------------------------------------------------------------------------
(* get_returns on the histories of HistorySpec.  The history h holds the ages *)
(* of its entries at the time of the call; the return is kept as the pair of  *)
(* the difference and the old price it is divided by.                         *)

\* the lookbacks asked for: 1 s (signal.rs) and half the retention window
Lookbacks == {1000, RetentionMs \div 2}

\* the first index of h that satisfies the test of find
FirstIn(h, lookback_ms) ==
    SetMin({i \in 1..Len(h) : h[i].age <= lookback_ms})

GetReturnsFromFront(h, lookback_ms) ==
    IF Len(h) < 2
    THEN NoReturn
    ELSE IF \A i \in 1..Len(h) : h[i].age > lookback_ms
         THEN NoReturn
         ELSE LET old_price == h[1].mid
                  current_price == h[Len(h)].mid
              IN  IF old_price = 0
                  THEN NoReturn
                  ELSE Some([num |-> current_price - old_price, den |-> old_price])

\* get_returns: None with fewer than two entries, with no entry at or after
\* the cutoff, and with an old price of zero
GetReturns(h, lookback_ms) ==
    IF Len(h) < 2
    THEN NoReturn
    ELSE IF \A i \in 1..Len(h) : h[i].age > lookback_ms
         THEN NoReturn
         ELSE LET old_price == h[FirstIn(h, lookback_ms)].mid
                  current_price == h[Len(h)].mid
              IN  IF old_price = 0
                  THEN NoReturn
                  ELSE Some([num |-> current_price - old_price, den |-> old_price])

\* the entries of h in the window, and the oldest of them
InWindow(h, lookback_ms) == {i \in 1..Len(h) : h[i].age <= lookback_ms}

Oldest(h, lookback_ms) ==
    {i \in InWindow(h, lookback_ms) :
        \A j \in InWindow(h, lookback_ms) : h[i].age >= h[j].age}

Sign(n) == IF n > 0 THEN 1 ELSE IF n < 0 THEN -1 ELSE 0

\* get_returns(lookback_ms) called dt after the last record_mid
ReturnsAfter(dt, lookback_ms) == GetReturns(Elapse(mid_history, dt), lookback_ms)

(* C29: get_returns reports no data when the history has fewer than two       *)
(* entries or none in the window of the lookback; else the return is the      *)
(* latest mid less the mid of an oldest entry in the window, divided by that  *)
(* mid, and it is positive, zero or negative as the latest mid is above,      *)
(* equal to or below it.                                                      *)
C29_ReturnsOverWindow ==
    \A dt \in HistoryElapsed, lookback_ms \in Lookbacks :
        LET h == Elapse(mid_history, dt)
            ret == ReturnsAfter(dt, lookback_ms)
        IN  IF Len(h) < 2 \/ InWindow(h, lookback_ms) = {}
            THEN ret = NoReturn
            ELSE \E i \in Oldest(h, lookback_ms), r \in ret :
                    /\ r.den = h[i].mid
                    /\ r.num = h[Len(h)].mid - h[i].mid
                    /\ r.den > 0
                    /\ Sign(r.num) = Sign(h[Len(h)].mid - h[i].mid)

C29_Witness ==
    /\ Len(mid_history) = 3
    /\ mid_history[1].age = RetentionMs \div 2
    /\ mid_history[1].mid = 4
    /\ mid_history[2].age = 0
    /\ mid_history[2].mid = 5
    /\ mid_history[3].mid = 4
    /\ ReturnsAfter(0, 1000) = Some([num |-> -1, den |-> 5])
    /\ ReturnsAfter(0, RetentionMs \div 2) = Some([num |-> 0, den |-> 4])
    /\ ReturnsAfter(RetentionMs \div 2, 1000) = NoReturn

----------------------------------------------------------------------------
\* the depths N of the imbalance: fewer levels than a side holds, as many, more
Depths == 1..3

\* the sums of the quantities at the n highest bids and at the n lowest asks
TopBidSum(b, n) ==
    SumQty(b.bids, {p \in DOMAIN b.bids :
                        Cardinality({q \in DOMAIN b.bids : q > p}) < n})

TopAskSum(b, n) ==
    SumQty(b.asks, {p \in DOMAIN b.asks :
                        Cardinality({q \in DOMAIN b.asks : q < p}) < n})

(* C30: in every state of the book and for every depth N, imbalance_top_n is  *)
(* the difference of the sums of the N highest bids and the N lowest asks     *)
(* over their total, it lies in [-1, 1], it is 0 when the two sums are equal  *)
(* and 0 when their total is 0.                                               *)
C30_ImbalanceInRange ==
    \A n \in Depths :
        LET imbalance == ImbalanceTopN(book, n)
            bid_sum == TopBidSum(book, n)
            ask_sum == TopAskSum(book, n)
        IN  /\ imbalance.den # 0
            /\ imbalance.num * imbalance.num <= imbalance.den * imbalance.den
            /\ bid_sum + ask_sum # 0 =>
                   imbalance.num * (bid_sum + ask_sum) = (bid_sum - ask_sum) * imbalance.den
            /\ bid_sum = ask_sum => imbalance.num = 0
            /\ bid_sum + ask_sum = 0 => imbalance.num = 0

----------------------------------------------------------------------------
(* The operator's commands, followed to the limits of the caps.  The deltas   *)
(* are those of the keys of the TUI (src/src/tui/app.rs 119-134) and those of *)
(* test_size_adjustment and test_max_price_adjustment; the caps are followed  *)
(* near the configured values and near both ends of [0.01, 0.99].            *)

OperatorSizeDeltas == SizeDeltas \cup {-20, 200}

OperatorPriceDeltas == PriceDeltas \cup {-1000, -50, 200}

OperatorCaps == {10, 20, 900, 980, 990} \cup MinCap..MaxCap

\* only caps inside [0.01, 0.99] are left out
OperatorCapFollowed(st, side) ==
    LET cap == IF side = "YES" THEN st.max_price_yes ELSE st.max_price_no
    IN  cap \in 10..990 => cap \in OperatorCaps

OperatorNext ==
    \/ ToggleKillSwitch /\ Idle
    \/ \E delta \in OperatorSizeDeltas : AdjustSize(delta) /\ Idle
    \/ \E side \in Sides, delta \in OperatorPriceDeltas :
           AdjustMaxPrice(side, delta) /\ OperatorCapFollowed(state', side) /\ Idle
    \/ QuoteUpdate("YES", 480, 500) /\ Idle
    \/ MarketFound /\ Idle
    \/ \E side \in Sides : PlaceOrder(side) /\ Idle
    \/ CheckAndSubmit(TRUE) /\ Idle
    \/ \E response \in Responses : OrderResponse(response, TRUE) /\ Idle
    \/ Return /\ Idle

OperatorSpec == TradeInit /\ [][OperatorNext]_vars

\* a step of place_order, of the quote feed or of the market refresh
OtherOperation ==
    \/ order' # order
    \/ quote_state' # quote_state
    \/ active_market' # active_market

SizeAdjusted == state'.current_size # state.current_size

CapAdjusted(side) ==
    IF side = "YES" THEN state'.max_price_yes # state.max_price_yes
                    ELSE state'.max_price_no # state.max_price_no

OtherSide(side) == IF side = "YES" THEN "NO" ELSE "YES"

CapIn(st, side) == IF side = "YES" THEN st.max_price_yes ELSE st.max_price_no

SizeWithin(st) == 1 <= st.current_size /\ st.current_size <= MaxSize

(* C31: every adjust_size leaves the size in [1, max_size], and a size in     *)
(* that range never leaves it; every adjust_max_price leaves the adjusted     *)
(* side's cap in [0.01, 0.99] and the other side's cap, the size and the kill *)
(* switch as they were; place_order, the quote feed and the market refresh    *)
(* leave the trading state as it was.                                         *)
C31_ConfigWithinBounds ==
    [][/\ SizeAdjusted => SizeWithin(state')
       /\ SizeWithin(state) => SizeWithin(state')
       /\ \A side \in Sides :
              CapAdjusted(side) =>
                  /\ CapIn(state', side) \in 10..990
                  /\ CapIn(state', OtherSide(side)) = CapIn(state, OtherSide(side))
                  /\ state'.current_size = state.current_size
                  /\ state'.kill_switch_active = state.kill_switch_active
       /\ OtherOperation => state' = state]_vars

\* both ends of the caps and the lower end of the size were reached by the
\* operator's keys, with an order placed under them
C31_Witness ==
    /\ state.max_price_yes = 990
    /\ state.max_price_no = 10
    /\ state.current_size = 1
    /\ order.pc = "done"

----------------------------------------------------------------------------
(* Part 5: the page scraper (src/src/services/price_scraper.rs).              *)
(*                                                                            *)
(* A page is a sequence of pieces of text: the pattern "openPrice": as one    *)
(* piece, the characters that end a value, a line break, an opening brace     *)
(* for any other character, and runs of digits.  No two runs of digits are    *)
(* adjacent, two of them would be one run.                                    *)

Pattern == "\"openPrice\":"

\* find(|c: char| c == ',' || c == '}' || c == ' ')
ValueEnds == {",", "}", " "}

\* what str::trim removes and no value ends at
Whitespace == {"\n"}

\* what is neither
OtherChars == {"{"}

\* the runs of digits of the pages: around both ends of the range
Numbers == {"9999", "10000", "500000", "500001"}

NumberOf(piece) ==
    CASE piece = "9999" -> 9999
      [] piece = "10000" -> 10000
      [] piece = "500000" -> 500000
      [] piece = "500001" -> 500001

\* the sanity range of the open price
MinOpenPrice == 10000

MaxOpenPrice == 500000

MaxPage == 5

Pieces == {Pattern} \cup ValueEnds \cup Whitespace \cup OtherChars \cup Numbers

Pages ==
    {h \in UNION {[1..n -> Pieces] : n \in 0..MaxPage} :
        \A i \in 1..(Len(h) - 1) : ~(h[i] \in Numbers /\ h[i + 1] \in Numbers)}

\* Option<f64>::None
NoOpenPrice == {}

\* the first index from `from` on whose piece is in S, Len(h) + 1 when none
Find(h, from, S) ==
    LET found == {i \in from..Len(h) : h[i] \in S}
    IN  IF found = {} THEN Len(h) + 1 ELSE SetMin(found)

\* h[from..to), an empty text when from >= to
Slice(h, from, to) == [i \in 1..Max(to - from, 0) |-> h[from + i - 1]]

\* str::trim
Trim(text) ==
    LET kept == {i \in 1..Len(text) : text[i] \notin Whitespace}
    IN  IF kept = {} THEN <<>> ELSE Slice(text, SetMin(kept), SetMax(kept) + 1)

\* value_str.parse::<f64>(), on the trimmed text
ParseF64(text) ==
    IF Len(text) = 1 /\ text[1] \in Numbers THEN Some(NumberOf(text[1])) ELSE NoOpenPrice

RECURSIVE ExtractFirstFrom(_, _)
ExtractFirstFrom(h, search_start) ==
    LET pos == Find(h, search_start, {Pattern})
        value_start == pos + 1
        value_end == Find(h, value_start, ValueEnds)
        p == ParseF64(Trim(Slice(h, value_start, value_end)))
    IN  IF pos > Len(h) THEN NoOpenPrice
        ELSE IF p # NoOpenPrice /\ \A v \in p : v >= MinOpenPrice /\ v <= MaxOpenPrice
             THEN p
             ELSE ExtractFirstFrom(h, value_end)

ExtractFirstOpenPrice(h) == ExtractFirstFrom(h, 1)

\* the while loop of extract_open_price_from_embedded_json
RECURSIVE ExtractFrom(_, _, _)
ExtractFrom(h, search_start, last_open_price) ==
    LET pos == Find(h, search_start, {Pattern})
        value_start == pos + 1
        value_end == Find(h, value_start, ValueEnds)
        p == ParseF64(Trim(Slice(h, value_start, value_end)))
    IN  IF pos > Len(h) THEN last_open_price
        ELSE ExtractFrom(h, value_end,
                 IF p # NoOpenPrice /\ \A v \in p : v >= MinOpenPrice /\ v <= MaxOpenPrice
                 THEN p ELSE last_open_price)

ExtractOpenPriceFromEmbeddedJson(h) == ExtractFrom(h, 1, NoOpenPrice)

NotCalled == [returned |-> FALSE, value |-> NoOpenPrice]

ScraperInit ==
    /\ Init
    /\ ExchangeIdle
    /\ LockIdle
    /\ CallerIdle
    /\ FetchIdle
    /\ TradeIdle
    /\ quote_state = Unused
    /\ active_market = Unused
    /\ SignalIdle
    /\ MarketIdle
    /\ html \in Pages
    /\ open_price = NotCalled

ExtractOpenPrice ==
    /\ ~open_price.returned
    /\ open_price' = [returned |-> TRUE, value |-> ExtractOpenPriceFromEmbeddedJson(html)]
    /\ UNCHANGED <<svc_vars, ex_vars, trade_vars, signal_vars, market_vars, lock_vars, html, caller_vars, fetch_vars>>

ScraperNext == ExtractOpenPrice

ScraperSpec == ScraperInit /\ [][ScraperNext]_vars

----------------------------------------------------------------------------
(* An occurrence of openPrice is the pattern with the text of its value, up   *)
(* to the character that ends the value; the occurrences of a page are those  *)
(* met from its start on, each one after the end of the one before.           *)
RECURSIVE OccurrencesFrom(_, _)
OccurrencesFrom(h, from) ==
    LET i == Find(h, from, {Pattern})
    IN  IF i > Len(h) THEN {}
        ELSE {i} \cup OccurrencesFrom(h, Find(h, i + 1, ValueEnds))

Occurrences(h) == OccurrencesFrom(h, 1)

ValueText(h, i) == Slice(h, i + 1, Find(h, i + 1, ValueEnds))

\* the number of an occurrence, none when its text is not a number
NumberAt(h, i) == ParseF64(Trim(ValueText(h, i)))

InRangeOccurrences(h) ==
    {i \in Occurrences(h) :
        \E v \in NumberAt(h, i) : v >= MinOpenPrice /\ v <= MaxOpenPrice}

LastInRange(h) ==
    IF InRangeOccurrences(h) = {} THEN NoOpenPrice
    ELSE NumberAt(h, SetMax(InRangeOccurrences(h)))

(* C32: the scraper returns the number of the last occurrence of openPrice    *)
(* whose number lies in [10000, 500000], whatever occurrences with a number   *)
(* out of the range or with no number come before and after it, and none when *)
(* no occurrence has a number in the range.                                   *)
C32_LastInRange ==
    open_price.returned => open_price.value = LastInRange(html)

\* a page with two occurrences in the range, or with one in the range and a
\* later one that is skipped, was scraped
C32_Witness ==
    /\ open_price.returned
    /\ open_price.value # NoOpenPrice
    /\ Cardinality(Occurrences(html)) >= 2
    /\ \/ Cardinality(InRangeOccurrences(html)) >= 2
       \/ SetMax(InRangeOccurrences(html)) < SetMax(Occurrences(html))

----------------------------------------------------------------------------
(* Part 6: the locks (parking_lot::RwLock) of the components and the tasks    *)
(* that take them.  A routine is the sequence of the lock operations of one   *)
(* handler, in the order of the code; a guard is released where it is dropped *)
(* or where its scope ends.                                                   *)

Tasks == {"binance", "polymarket", "snapshot", "tui"}

Read(lock) == [op |-> "acquire", lock |-> lock, mode |-> "read"]

Write(lock) == [op |-> "acquire", lock |-> lock, mode |-> "write"]

Drop(lock) == [op |-> "release", lock |-> lock, mode |-> "none"]

\* BinanceBookService::run_connection on a diff that applies: apply_diff under
\* book.write(), then record_mid and emit_update
DiffApplied ==
    <<Write("binance.book"), Drop("binance.book"),
      Read("binance.book"), Write("binance.mid_history"),
      Drop("binance.mid_history"), Drop("binance.book"),
      Read("binance.book"), Drop("binance.book")>>

\* PolymarketService::process_price_changes and process_book_message
ProcessQuotes ==
    <<Read("polymarket.active_market"), Write("polymarket.quote_state"),
      Drop("polymarket.quote_state"), Drop("polymarket.active_market")>>

\* PolymarketService::refresh_market_tokens and the periodic market check
ReplaceMarket ==
    <<Write("polymarket.active_market"), Drop("polymarket.active_market")>>

\* the snapshot task of main: compute_signal, the accessors, set_target_price
SnapshotTick ==
    <<Read("binance.mid_history"), Drop("binance.mid_history"),
      Read("polymarket.quote_state"), Drop("polymarket.quote_state"),
      Write("signal.signal_state"), Drop("signal.signal_state"),
      Read("binance.book"), Drop("binance.book"),
      Read("binance.mid_history"), Drop("binance.mid_history"),
      Read("polymarket.quote_state"), Drop("polymarket.quote_state"),
      Read("polymarket.active_market"), Drop("polymarket.active_market"),
      Write("polymarket.active_market"), Drop("polymarket.active_market")>>

\* TradeService::toggle_kill_switch, adjust_size, adjust_max_price: record_action
\* is called with the state guard alive
OperatorCommand ==
    <<Write("trade.state"), Write("trade.action_log"),
      Drop("trade.action_log"), Drop("trade.state")>>

\* TradeService::place_order up to the end of a rejected or dry-run order:
\* the size and caps, the quotes, check_risk, record_action
PlaceOrderLocks ==
    <<Read("trade.state"), Drop("trade.state"),
      Read("polymarket.quote_state"), Drop("polymarket.quote_state"),
      Read("trade.state"),
      Read("polymarket.quote_state"), Drop("polymarket.quote_state"),
      Read("polymarket.quote_state"), Drop("polymarket.quote_state"),
      Drop("trade.state"),
      Write("trade.action_log"), Drop("trade.action_log")>>

RoutinesOf(t) ==
    CASE t = "binance" -> {"diff_applied"}
      [] t = "polymarket" -> {"process_quotes", "replace_market"}
      [] t = "snapshot" -> {"snapshot_tick"}
      [] t = "tui" -> {"operator_command", "place_order"}

Routine(name) ==
    CASE name = "diff_applied" -> DiffApplied
      [] name = "process_quotes" -> ProcessQuotes
      [] name = "replace_market" -> ReplaceMarket
      [] name = "snapshot_tick" -> SnapshotTick
      [] name = "operator_command" -> OperatorCommand
      [] name = "place_order" -> PlaceOrderLocks

Resting == [routine |-> "none", at |-> 0]

LockInit ==
    /\ Init
    /\ ExchangeIdle
    /\ TradeIdle
    /\ quote_state = Unused
    /\ active_market = Unused
    /\ SignalIdle
    /\ MarketIdle
    /\ ScraperIdle
    /\ CallerIdle
    /\ FetchIdle
    /\ task_pc = [t \in Tasks |-> Resting]
    /\ held = [t \in Tasks |-> {}]

\* the lock operation a task is at
Instruction(t) == Routine(task_pc[t].routine)[task_pc[t].at]

\* RwLock: a writer excludes everyone, readers exclude a writer
Free(lock, mode) ==
    \A u \in Tasks : \A h \in held[u] :
        h.lock = lock => (mode = "read" /\ h.mode = "read")

NoLocks == UNCHANGED <<svc_vars, ex_vars, trade_vars, signal_vars, market_vars, scraper_vars, caller_vars, fetch_vars>>

\* a message, a timer tick or a key starts a handler
Begin(t, name) ==
    /\ task_pc[t] = Resting
    /\ task_pc' = [task_pc EXCEPT ![t] = [routine |-> name, at |-> 1]]
    /\ UNCHANGED held
    /\ NoLocks

Acquire(t) ==
    /\ task_pc[t] # Resting
    /\ task_pc[t].at <= Len(Routine(task_pc[t].routine))
    /\ Instruction(t).op = "acquire"
    /\ Free(Instruction(t).lock, Instruction(t).mode)
    /\ held' = [held EXCEPT ![t] = @ \cup {[lock |-> Instruction(t).lock,
                                            mode |-> Instruction(t).mode]}]
    /\ task_pc' = [task_pc EXCEPT ![t].at = @ + 1]
    /\ NoLocks

Release(t) ==
    /\ task_pc[t] # Resting
    /\ task_pc[t].at <= Len(Routine(task_pc[t].routine))
    /\ Instruction(t).op = "release"
    /\ held' = [held EXCEPT ![t] = {h \in @ : h.lock # Instruction(t).lock}]
    /\ task_pc' = [task_pc EXCEPT ![t].at = @ + 1]
    /\ NoLocks

\* the handler returns
Finish(t) ==
    /\ task_pc[t] # Resting
    /\ task_pc[t].at > Len(Routine(task_pc[t].routine))
    /\ task_pc' = [task_pc EXCEPT ![t] = Resting]
    /\ UNCHANGED held
    /\ NoLocks

LockNext ==
    \/ \E t \in Tasks : \E name \in RoutinesOf(t) : Begin(t, name)
    \/ \E t \in Tasks : Acquire(t)
    \/ \E t \in Tasks : Release(t)
    \/ \E t \in Tasks : Finish(t)

LockSpec == LockInit /\ [][LockNext]_vars

----------------------------------------------------------------------------
\* task t waits for a lock that task u holds
WaitsFor(t, u) ==
    /\ task_pc[t] # Resting
    /\ task_pc[t].at <= Len(Routine(task_pc[t].routine))
    /\ Instruction(t).op = "acquire"
    /\ \E h \in held[u] :
           /\ h.lock = Instruction(t).lock
           /\ ~(Instruction(t).mode = "read" /\ h.mode = "read")

\* no set of tasks waits for locks held inside the set
DeadlockFree ==
    \A S \in SUBSET Tasks :
        S # {} => \E t \in S : \A u \in S : ~WaitsFor(t, u)

(* C33: no task holds two locks at the same time, and no set of tasks waits   *)
(* for one another's locks.                                                   *)
C33_NeverTwoLocks ==
    /\ \A t \in Tasks : Cardinality(held[t]) <= 1
    /\ DeadlockFree

----------------------------------------------------------------------------
(* stop() against the spawned start() task.  stop_seen records the calls of   *)
(* stop(): the last one found start() not yet begun, or begun.                *)

StopSeen == stop_seen' = IF pc = "idle" THEN "before_start" ELSE "after_start"

\* one snapshot; diffs that follow it, repeat or leave a gap
StopSnapshots ==
    {[last_update_id |-> 0, bids |-> <<Level(2, 1)>>, asks |-> <<Level(6, 1)>>]}

StopDiffs ==
    {[first_update_id |-> i, final_update_id |-> i, prev_final_update_id |-> NoPu,
      bids |-> bs, asks |-> <<>>] : i \in {1, 2, 4}, bs \in {<<>>, <<Level(2, 2)>>}}

StopNext ==
    \/ Start /\ NoExchange
    \/ Stop /\ StopSeen /\ UNCHANGED <<ex_vars, app_vars>>
    \/ LoopTop /\ NoExchange
    \/ Connect /\ NoExchange
    \/ FetchFail /\ NoExchange
    \/ \E s \in StopSnapshots : FetchSnapshot(s) /\ NoExchange
    \/ Wake /\ NoExchange
    \/ \E d \in StopDiffs, dt \in Elapsed : RecvDiff(d, dt) /\ NoExchange
    \/ \E kind \in MessageKinds : RecvOther(kind) /\ NoExchange

\* a message or the end of the stream
Received ==
    \/ \E d \in StopDiffs, dt \in Elapsed : RecvDiff(d, dt) /\ NoExchange
    \/ \E kind \in MessageKinds : RecvOther(kind) /\ NoExchange

\* the connection attempt and the snapshot request return
Answered ==
    \/ Connect /\ NoExchange
    \/ FetchFail /\ NoExchange
    \/ \E s \in StopSnapshots : FetchSnapshot(s) /\ NoExchange

(* The runtime runs the spawned task, the sleep ends, the requests return and *)
(* the stream delivers a next message or ends.                                *)
StopFairness ==
    /\ WF_vars(Start /\ NoExchange)
    /\ WF_vars(LoopTop /\ NoExchange)
    /\ WF_vars(Wake /\ NoExchange)
    /\ WF_vars(Answered)
    /\ WF_vars(Received)

StopSpec == FreeInit /\ [][StopNext]_vars /\ StopFairness

\* the loop of start() moves on or handles a diff
LoopStep ==
    \/ pc' # pc
    \/ book' # book
    \/ mid_history' # mid_history
    \/ <<diff, result>>' # <<diff, result>>

\* what a step of the loop does once the flag is false: the next message
\* ends the connection unhandled, the next turn of the loop ends start()
Winding ==
    /\ pc = "stream" => (pc' = "loop" /\ UNCHANGED <<book, mid_history, diff, result>>)
    /\ pc = "loop" => pc' = "done"

StopNoted == stop_seen # "never" /\ stop_seen' # "never"

StopNotedAfterStart == stop_seen = "after_start" /\ stop_seen' = "after_start"

----------------------------------------------------------------------------
\* the positions of run_connection: from connect_async to the end of the stream
InConnection == {"connect", "fetch", "stream"}

\* run_connection returns
ConnectionEnds == pc \in InConnection /\ pc' \notin InConnection

(* C35: whenever a connection of the spot-book maintainer ends while the      *)
(* service is running, whatever ended it, the 5 s wait comes next, before the *)
(* loop of start() connects again.                                            *)
C35_WaitBeforeReconnect ==
    [][ConnectionEnds /\ running => pc' = "sleep"]_vars

----------------------------------------------------------------------------
\* apply_diff returned the parse error of one of the diff's entries
FailedStep == DiffStep /\ result' = "err"

(* C36: a diff with a price or a quantity that does not parse leaves the      *)
(* bids, the asks and last_update_id as they were, records no mid, sends no   *)
(* update and does not end the connection.                                    *)
C36_FailedDiffDropped ==
    [][FailedStep =>
           /\ book' = book
           /\ mid_history' = mid_history
           /\ update_tx' = NoUpdate
           /\ pc' = pc]_vars

\* what does hold of a failed diff: only the levels move
C36_FailedDiffKeepsId ==
    [][FailedStep =>
           /\ book'.last_update_id = book.last_update_id
           /\ book'.initialized = book.initialized
           /\ mid_history' = mid_history
           /\ update_tx' = NoUpdate
           /\ pc' = pc]_vars

----------------------------------------------------------------------------
\* no quote was ever received: the staleness of the quote state is unknown
StalenessUnknown == quote_state.age = Never

(* C37: as long as the quote state was never updated, the signal state that   *)
(* compute_signal leaves has no suggested side and the confidence 0, whatever *)
(* the spot returns are, and no signal event is sent.                         *)
C37_NoSideWhileUnknown ==
    StalenessUnknown =>
        /\ signal_state.suggested_side = "none"
        /\ signal_state.confidence = 0
        /\ signal_tx = {}

----------------------------------------------------------------------------
(* Part 7: place_order beside the other tasks                               *)
(*                                                                          *)
(* One place_order call is followed statement by statement (call), on a    *)
(* task of its own, while the tasks that change what it reads run: the     *)
(* operator's commands (the trade gate is shared, its commands take &self), *)
(* the quote feed, and the market check of run_connection.  What the call   *)
(* logs and returns is in Part 2.  quoted_for remembers of each quote of   *)
(* the quote state the market whose token it was received for.              *)

NoCall ==
    [pc |-> "idle", side |-> "none", size |-> 0,
     max_price_yes |-> 0, max_price_no |-> 0, limit_price |-> 0,
     priced_for |-> {}, checked_for |-> {}, token_id |-> "", sent |-> <<>>]

\* QuoteState::default: no quote was received
NoQuotesFor == [yes_bid |-> "", yes_ask |-> "", no_bid |-> "", no_ask |-> ""]

CallerInit ==
    /\ Init
    /\ ExchangeIdle
    /\ ScraperIdle
    /\ LockIdle
    /\ \E y \in ConfigMaxPricesYes, n \in ConfigMaxPricesNo :
           state = NewTradingState(SetMin(DefaultSizes), y, n)
    /\ quote_state = NewQuoteState
    /\ active_market = NoMarket
    /\ order = NoOrder
    /\ session \in Sessions
    /\ SignalIdle
    /\ MarketIdle
    /\ call = NoCall
    /\ quoted_for = NoQuotesFor
    /\ FetchIdle

Others == UNCHANGED <<svc_vars, ex_vars, signal_vars, market_vars, scraper_vars, lock_vars, fetch_vars>>

\* set_kill_switch
SetKillSwitch(active) ==
    /\ state' = [state EXCEPT !.kill_switch_active = active]
    /\ UNCHANGED <<quote_state, active_market, order, session>>

\* process_price_changes, process_book_message: the quotes of a message for a
\* token of the active market are stored
QuoteReceived(side, bid, ask) ==
    /\ QuoteUpdate(side, bid, ask)
    /\ LET c == active_market.condition_id
       IN  quoted_for' =
             IF side = "YES"
             THEN [quoted_for EXCEPT
                     !.yes_bid = IF bid # NoQuote THEN c ELSE @,
                     !.yes_ask = IF ask # NoQuote THEN c ELSE @]
             ELSE [quoted_for EXCEPT
                     !.no_bid = IF bid # NoQuote THEN c ELSE @,
                     !.no_ask = IF ask # NoQuote THEN c ELSE @]
    /\ UNCHANGED call

\* run_connection, the periodic check: check_for_new_market answered with the
\* market of the next window, the descriptor is replaced
NextMarket == "c2"

MarketChanged ==
    /\ active_market.condition_id \notin {"", NextMarket}
    /\ active_market' = Market(NextMarket)
    /\ UNCHANGED <<state, quote_state, order, session, caller_vars>>

\* place_order, its first statements: the size and the caps are read
CallReadState(side) ==
    /\ call.pc = "idle"
    /\ call' = [NoCall EXCEPT !.pc = "quotes", !.side = side,
                              !.size = state.current_size,
                              !.max_price_yes = state.max_price_yes,
                              !.max_price_no = state.max_price_no]
    /\ UNCHANGED <<trade_vars, quoted_for>>

SideBid(q, side) == IF side = "YES" THEN q.yes_bid ELSE q.no_bid

SideAsk(q, side) == IF side = "YES" THEN q.yes_ask ELSE q.no_ask

\* get_quote_state, then the limit price from the ask and the cap read before
CallReadQuotes ==
    /\ call.pc = "quotes"
    /\ call' = [call EXCEPT
         !.pc = "risk",
         !.limit_price = LimitPrice(call, quote_state, call.side),
         !.priced_for = IF SideAsk(quote_state, call.side) # NoQuote
                        THEN {SideAsk(quoted_for, call.side)} ELSE {}]
    /\ UNCHANGED <<trade_vars, quoted_for>>

\* check_risk, under the read lock of the trading state; a rejected order and
\* a dry run end the call
CallCheckRisk ==
    /\ call.pc = "risk"
    /\ LET reason == CheckRisk(state, quote_state, call.side, call.size,
                               call.limit_price)
           bid == SideBid(quote_state, call.side)
           ask == SideAsk(quote_state, call.side)
       IN  call' = [call EXCEPT
             !.pc = IF reason = "allowed" /\ ~session.dry_run THEN "market" ELSE "done",
             !.checked_for = IF bid # NoQuote /\ ask # NoQuote
                             THEN {SideBid(quoted_for, call.side),
                                   SideAsk(quoted_for, call.side)}
                             ELSE {}]
    /\ UNCHANGED <<trade_vars, quoted_for>>

\* get_active_market, the token of the side; no token ends the call
CallReadMarket ==
    /\ call.pc = "market"
    /\ call' = [call EXCEPT
         !.pc = IF TokenOf(call.side) = "" THEN "done" ELSE "send",
         !.token_id = TokenOf(call.side)]
    /\ UNCHANGED <<trade_vars, quoted_for>>

\* ClobClient::place_order: the request leaves; without credentials none does
CallSend ==
    /\ call.pc = "send"
    /\ call' = IF session.credentials
               THEN [call EXCEPT
                       !.pc = "await",
                       !.sent = Append(@, OrderRequest(call.token_id,
                                           call.limit_price, call.size))]
               ELSE [call EXCEPT !.pc = "done"]
    /\ UNCHANGED <<trade_vars, quoted_for>>

\* the answer of the exchange, or none
CallAnswered ==
    /\ call.pc = "await"
    /\ call' = [call EXCEPT !.pc = "done"]
    /\ UNCHANGED <<trade_vars, quoted_for>>

CallReturn ==
    /\ call.pc = "done"
    /\ call' = NoCall
    /\ UNCHANGED <<trade_vars, quoted_for>>

\* the quotes the feed is given here, and the time that passes without one
CallerBids == {NoQuote, 480}

CallerAsks == {500, 962}

CallerQuoteAges == {StaleQuoteThresholdMs + 1}

CallerNext ==
    \/ ToggleKillSwitch /\ Idle
    \/ \E active \in BOOLEAN : SetKillSwitch(active) /\ Idle
    \/ \E side \in Sides, delta \in PriceDeltas :
           AdjustMaxPrice(side, delta) /\ CapFollowed(state', side) /\ Idle
    \/ \E bid \in CallerBids, ask \in CallerAsks : QuoteReceived("YES", bid, ask) /\ Others
    \/ \E a \in CallerQuoteAges : QuoteAge(a) /\ Idle
    \/ MarketFound /\ Idle
    \/ MarketChanged /\ Others
    \/ \E side \in Sides : CallReadState(side) /\ Others
    \/ CallReadQuotes /\ Others
    \/ CallCheckRisk /\ Others
    \/ CallReadMarket /\ Others
    \/ CallSend /\ Others
    \/ CallAnswered /\ Others
    \/ CallReturn /\ Others

CallerSpec == CallerInit /\ [][CallerNext]_vars

\* the request leaves in this step
Sending == Len(call'.sent) > Len(call.sent)

\* the token of a side in the market c
TokenIn(c, side) == IF side = "YES" THEN Market(c).up_token_id ELSE Market(c).down_token_id

(* C38: the ask that gave the limit price of a sent order, and the bid and  *)
(* the ask of its spread check, were received for the token the order buys. *)
C38_QuotesOfTheToken ==
    [][Sending =>
           \A c \in call.priced_for \cup call.checked_for :
               TokenIn(c, call.side) = call.token_id]_vars

\* what does hold: the token bought is a token of a market that was active
C38_TokenOfAMarket ==
    [][Sending => \E c \in {"c1", NextMarket} : TokenIn(c, call.side) = call.token_id]_vars

----------------------------------------------------------------------------
\* the cap in force of a side
CapInForce(side) == IF side = "YES" THEN state.max_price_yes ELSE state.max_price_no

\* the request that leaves in a Sending step
Request == call'.sent[Len(call'.sent)]

(* C39: when a request leaves for the order API, the kill switch is off and *)
(* the price of the request is not above the cap in force of its side.      *)
C39_GateAtSend ==
    [][Sending =>
           /\ ~state.kill_switch_active
           /\ Request.price <= CapInForce(call.side)]_vars

\* what does hold: the limit price is not above the cap that the call read
C39_LimitUnderCapRead ==
    [][Sending => call.limit_price <=
                      (IF call.side = "YES" THEN call.max_price_yes
                                            ELSE call.max_price_no)]_vars

----------------------------------------------------------------------------
(* Part 8: the fetches of the price to beat, one by one                     *)
(*                                                                          *)
(* Part 4 counts the running fetches.  Here each spawned fetch is followed: *)
(* fetch_price_to_beat_from_page reads the slug of the descriptor when the  *)
(* task first runs, fetches that page, and force_set_target_price writes    *)
(* into the descriptor of that later moment.                                *)

\* tokio::spawn: the task has not run yet
Spawned == [pc |-> "spawned", slug |-> ""]

Fetching(slug) == [pc |-> "fetching", slug |-> slug]

TargetInit ==
    /\ Init
    /\ ExchangeIdle
    /\ ScraperIdle
    /\ CallerIdle
    /\ LockIdle
    /\ TradeIdle
    /\ SignalIdle
    /\ quote_state = NewQuoteState
    /\ active_market = NoMarket
    /\ poly_pc = "start"
    /\ tick = NewTick
    /\ scrapers = 0
    /\ market_op = "none"
    /\ catalog = Catalog(Open("c1"), Missing, Missing)
    /\ assets_ids = NoAssets
    /\ check_due = FALSE
    /\ fetches = <<>>

TargetRest ==
    UNCHANGED <<svc_vars, ex_vars, state, order, session, signal_vars, scraper_vars,
                lock_vars, caller_vars>>

\* the tick that notes a new condition id spawns a fetch
TickChangedAndSpawns ==
    /\ TickChanged
    /\ fetches' = IF scrapers' > scrapers THEN Append(fetches, Spawned) ELSE fetches

\* fetch_price_to_beat_from_page, its first statements: the slug of the
\* descriptor as it is now
FetchReadsSlug(i) ==
    /\ fetches[i].pc = "spawned"
    /\ fetches' = [fetches EXCEPT ![i] = Fetching(active_market.slug)]
    /\ UNCHANGED <<market_vars, active_market, quote_state>>

WithoutFetch(i) == [j \in 1..(Len(fetches) - 1) |-> IF j < i THEN fetches[j] ELSE fetches[j + 1]]

\* the page was fetched: force_set_target_price with the price found in it
FetchDone(i, price) ==
    /\ fetches[i].pc = "fetching"
    /\ ScraperDone(price)
    /\ fetches' = WithoutFetch(i)

\* the catalogs, the reference prices and the messages met here
TargetCatalogs ==
    {Catalog(Open("c1"), Missing, Missing),
     Catalog(Listed("c1", Some(TRUE), TRUE, Some(TokenIds("c1"))), Open("c2"), Missing)}

TargetChainlinkPrices == {NoTarget, 100}

TargetMessages == {Ping}

TargetNext ==
    \/ \E cat \in TargetCatalogs : CatalogChanges(cat) /\ Rest
    \/ StartRefresh /\ Rest
    \/ Subscribed /\ Rest
    \/ MarketCheckInterval /\ Rest
    \/ \E msg \in TargetMessages : StreamMessage(msg) /\ Rest
    \/ StreamEnds /\ Rest
    \/ TickRead /\ Rest
    \/ TickChangedAndSpawns /\ TargetRest
    \/ \E price \in TargetChainlinkPrices, window_started \in BOOLEAN :
           TickFallback(price, window_started) /\ Rest
    \/ \E i \in 1..MaxScrapers : i <= Len(fetches) /\ FetchReadsSlug(i) /\ TargetRest
    \/ \E i \in 1..MaxScrapers, price \in ScrapedPrices :
           i <= Len(fetches) /\ FetchDone(i, price) /\ TargetRest

TargetSpec == TargetInit /\ [][TargetNext]_vars

\* a fetch ends and writes the price it found
FetchWrites == market_op' = "force_set" /\ Len(fetches') < Len(fetches)

(* C40: a fetch of the price to beat that writes its price writes it into    *)
(* the descriptor of the market whose page it fetched.                       *)
C40_ScrapeWritesItsMarket ==
    [][FetchWrites =>
           \E i \in 1..Len(fetches) :
               /\ fetches' = WithoutFetch(i)
               /\ fetches[i].slug = active_market.slug]_vars

====
